---- MODULE Spec2Model ----
(***************************************************************************)
(* A model of the telemetry-poc trajectory reconstruction pipeline:        *)
(* GPS outlier rejection, linear / Catmull-Rom resampling, trajectory      *)
(* enrichment, accuracy metrics and the 7-state INS/GPS EKF.               *)
(*                                                                         *)
(* Numbers.  JavaScript doubles are modelled as integers:                  *)
(*   - timestamps are counted in ticks, TicksPerSec ticks to the second    *)
(*     (a quarter of a millisecond), so that toFixed(3) is a real rounding;*)
(*   - lat / lon are counted in units of 1/METERS_PER_DEG_LAT degree, i.e. *)
(*     one unit is one metre on the ground near the equator (cos lat = 1); *)
(*   - every other real (speed, acceleration, score, angle, covariance) is *)
(*     fixed-point with SCALE units to 1, products and quotients rounded   *)
(*     towards minus infinity as \div does;                                *)
(*   - where the rounding of the doubles decides a property (the           *)
(*     interpolation kernels, the accuracy statistics) the arithmetic is   *)
(*     binary floating point with a significand of MantissaBits bits,      *)
(*     rounded to nearest, ties to even.                                   *)
(***************************************************************************)
EXTENDS Integers, Sequences, FiniteSets, TLC

VARIABLES
    \* ---- outlier rejector (gps/outlier-detection.js)
    gpsPoints,      \* the input fix sequence of filterGPSOutliers
    outlierCfg,     \* CONFIG.outlierDetection: [enabled, method]
    firstRun,       \* result {filtered, outliers} of the run on gpsPoints, or NoResult
    secondRun,      \* result of the run on firstRun.filtered, or NoResult
    opc,            \* "input" -> "filtered" -> "refiltered"
    \* ---- reconstructors (runner.js runAllAlgorithms, interpolation/*.js)
    fullData,       \* the enriched stream of the lap (ground truth, IMU rate)
    gpsData,        \* the fix sequence handed to the reconstructors
    linear,         \* result of applyLinearInterpolation
    spline,         \* result of applySplineInterpolation
    rpc,            \* position in runAllAlgorithms
    \* ---- EKF driver (filters/ekf-ins-gps.js runSensorFusion)
    ekf,            \* the INSGPSFusion object: x, P, lat0, lon0, initialized
    gpsIdx,         \* 0-based index of the last fix used
    nextGpsTime,    \* timestamp of the next fix, or Infinity
    sampleIdx,      \* 0-based loop index i into fullData
    trajectory,     \* the output being built
    lastStep,       \* the EKF step taken last: "none", "initialize", "predict", "update", "skip", "emit"
    ekfRaw,         \* result of runSensorFusion
    ekfSmooth,      \* result of smoothTrajectoryWithSpline
    \* ---- enrichment (analysis/distance.js enhanceTelemetryPoints)
    rawPoints,      \* the raw telemetry points of a lap
    enhanced,       \* the local 'enhanced', then the returned {points, totalDistance, duration}
    apc,            \* "raw" -> "distance" -> "position" -> "time" -> "done"
    \* ---- accuracy (analysis/metrics.js calculateAccuracyMetrics)
    groundTruth,    \* reference trajectory
    estimated,      \* estimated trajectory
    metrics,        \* the returned AccuracyMetrics, or NoMetrics
    mpc,            \* "input" -> "done"
    \* ---- configuration (config.js)
    configEkf,      \* CONFIG.ekf, the object the EKF reads its parameters from
    \* ---- an INSGPSFusion object driven through its methods
    calls,          \* number of method calls made so far
    returned,       \* what the last getPosition call returned
    \* ---- experiment runner (runner.js), continuing the reconstructor variables
    expIdx,         \* number of experiments of the grid that have been run
    tpc,            \* position in runEkfExperiment: "idle" -> "assigned" -> "ran"
    trialMetrics,   \* the local 'metrics' of runEkfExperiment
    results,        \* the local 'results' of runEkfExperiments, then ekfExperiments
    originalConfig, \* the local 'originalConfig' of runEkfExperiment
    originalEkfConfig, \* the local 'originalEkfConfig' of runAllAlgorithms
    ekfBest,        \* result of runSensorFusion under the best configuration
    algResults,     \* what runAllAlgorithms returned last
    \* ---- browser pipeline (browser/process.js)
    fullDataRaw,    \* the parsed samples; processLap rewrites their timestamps
    randoms,        \* the Gaussian draws the run is fed, in order
    drawn,          \* number of draws consumed
    laps,           \* the lap numbers found, ascending
    lapIdx,         \* the loop index i over laps
    path,           \* "clean" or "noisy": the runAllAlgorithms call processLap is in
    lapOut,         \* the locals of the lap pipeline, then its result
    allLapsData,    \* results of processLap, one per lap processed
    selectedLapData,\* result of the detailed analysis of the first lap
    progress,       \* the stages reported through onProgress, in order
    thrown,         \* the message of the Error thrown, or ""
    cpc,            \* position in processCSV
    \* ---- the arrays of a runAllAlgorithms call as objects
    heap,           \* the arrays allocated so far; an array's identity is its index
    refs,           \* the array each name of runAllAlgorithms refers to, 0 before it is bound
    hpc,            \* position in runAllAlgorithms
    \* ---- GPS-only Kalman filter (filters/kalman-1d.js applyGPSOnlyKalman), on
    \*      fullData and gpsData with the cursor variables gpsIdx, nextGpsTime, sampleIdx
    latMeasurements, \* one entry per sample of the slice: a fix's lat, or null
    lonMeasurements, \* the same for lon
    filtered,       \* the returned trajectory
    kpc,            \* position in applyGPSOnlyKalman
    \* ---- speed-extrema detector (analysis/speed-extrema.js findSpeedExtrema)
    speedData,      \* the argument: the speed of each point, m/s
    allExtrema,     \* step 1: every local extremum, in track order
    merged,         \* steps 2 and 3: the candidates that are left
    changed,        \* the flag of the loop of step 3
    extrema,        \* the result: minPoints and maxPoints
    xpc,            \* position in findSpeedExtrema
    \* ---- playback of TelemetryVisualization (browser/components/event-bus.js)
    isPlaying,      \* state.isPlaying
    lastFrameTime,  \* state.lastFrameTime: null, or a reading of the clock
    currentTime,    \* state.currentTime, in ticks of the clock
    playbackSpeed,  \* state.playbackSpeed
    hasLapData,     \* whether getLapData() returns a lap
    clock,          \* performance.now(), in ticks
    pendingFrames,  \* animation-frame callbacks requested for the next frame
    runningFrames   \* callbacks of the frame being run that have not run yet

outlierVars == <<gpsPoints, outlierCfg, firstRun, secondRun, opc>>
reconVars == <<fullData, gpsData, linear, spline, rpc>>
ekfVars == <<ekf, gpsIdx, nextGpsTime, sampleIdx, trajectory, lastStep, ekfRaw, ekfSmooth>>

enrichVars == <<rawPoints, enhanced, apc>>
metricsVars == <<groundTruth, estimated, metrics, mpc>>
configVars == <<configEkf>>
apiVars == <<calls, returned>>
runnerVars == <<expIdx, tpc, trialMetrics, results, originalConfig, originalEkfConfig, ekfBest,
                algResults>>
csvVars == <<fullDataRaw, randoms, drawn, laps, lapIdx, path, lapOut, allLapsData,
             selectedLapData, progress, thrown, cpc>>
heapVars == <<heap, refs, hpc>>
kalmanVars == <<latMeasurements, lonMeasurements, filtered, kpc>>
extremaVars == <<speedData, allExtrema, merged, changed, extrema, xpc>>
playVars == <<isPlaying, lastFrameTime, currentTime, playbackSpeed, hasLapData, clock,
              pendingFrames, runningFrames>>
moreVars == <<kalmanVars, extremaVars, playVars>>
restVars == <<configVars, apiVars, runnerVars, csvVars, heapVars, moreVars>>
analysisVars == <<enrichVars, metricsVars, restVars>>

vars == <<outlierVars, reconVars, ekfVars, analysisVars>>

----------------------------------------------------------------------------
(* Fixed-point arithmetic                                                   *)

SCALE == 1000
TicksPerSec == 4000

Abs(a) == IF a < 0 THEN -a ELSE a
Max2(a, b) == IF a > b THEN a ELSE b
Min2(a, b) == IF a < b THEN a ELSE b

RECURSIVE SqrtSearch(_, _, _)
SqrtSearch(n, lo, hi) ==
    IF lo >= hi THEN lo
    ELSE LET mid == (lo + hi + 1) \div 2
         IN  IF mid * mid <= n THEN SqrtSearch(n, mid, hi)
                               ELSE SqrtSearch(n, lo, mid - 1)

\* Math.sqrt on a non-negative integer, rounded down
ISqrt(n) == SqrtSearch(n, 0, Min2(n, 46340))

RECURSIVE SeqSum(_)
SeqSum(s) == IF s = <<>> THEN 0 ELSE Head(s) + SeqSum(Tail(s))

Range(s) == {s[i] : i \in 1..Len(s)}

----------------------------------------------------------------------------
(* Floating-point arithmetic                                                *)

(* A JavaScript Number is a binary float: every sum, product and quotient   *)
(* is rounded to the nearest representable value, ties to even.  Where the  *)
(* rounding matters (the interpolation kernels, the accuracy statistics)    *)
(* the model keeps that arithmetic and shortens the significand to          *)
(* MantissaBits bits.  A float is held as a whole number of units; positions *)
(* are in the position unit, parameters in [0, 1] and the statistics in      *)
(* units of 1 / One.  Whole numbers below 2 ^ MantissaBits are floats.       *)
MantissaBits == 8
FracBits == 4
One == 2 ^ FracBits

RECURSIVE BitLength(_)
BitLength(n) == IF n = 0 THEN 0 ELSE 1 + BitLength(n \div 2)

\* spacing of the floats around a value of n >= 0 units
Ulp(n) == IF BitLength(n) <= MantissaBits THEN 1 ELSE 2 ^ (BitLength(n) - MantissaBits)

\* the float nearest to num / den units (num >= 0, den > 0), ties to even
RoundToFloat(num, den) ==
    LET g == Ulp(num \div den)
        k == num \div (den * g)
        twice == 2 * (num - k * den * g)
    IN  IF twice < den * g THEN k * g
        ELSE IF twice > den * g THEN (k + 1) * g
        ELSE IF k % 2 = 0 THEN k * g ELSE (k + 1) * g

\* the same for either sign of num
RoundSigned(num, den) == IF num < 0 THEN -RoundToFloat(-num, den) ELSE RoundToFloat(num, den)

\* a + b and a * b of two floats in the same unit; a * u with u in units of 1 / One
fadd(a, b) == RoundSigned(a + b, 1)
fsub(a, b) == RoundSigned(a - b, 1)
ftimes(n, a) == RoundSigned(n * a, 1)
fmul(a, u) == RoundSigned(a * u, One)

----------------------------------------------------------------------------
(* Configuration (config.js)                                                *)

G == 9810                       \* CONFIG.G = 9.81 m/s^2
maxSpeedKmh == 250
maxJumpMeters == 50
maxAccelG == 2000               \* 2.0 G
maxYawRateDiff == 45000         \* 45 deg/s
maxSpeedDiff == 15000           \* 15 m/s
maxLatAccDiff == 800            \* 0.8 G
anomalyThreshold == 4000        \* 4.0
useTemporalCheck == TRUE
minPerpDistance == 15           \* metres
triangleRatio == 2500           \* 2.5
PI == 3142                      \* Math.PI, in milliradians
gpsHz == 1                      \* CONFIG.sampling.gpsHz
\* CONFIG.sampling.imuHz.  The source sets 25; the model runs the pipeline at
\* a lower inertial rate so that a lap of a few samples spans several fixes.
imuHz == 2
downsampleRatio == imuHz \div gpsHz

----------------------------------------------------------------------------
(* Geodesy (math/geometry.js)                                               *)

\* haversineDistance: great-circle distance in whole metres.  At track scale
\* the haversine formula is the planar distance of the two points.
haversineDistance(lat1, lon1, lat2, lon2) ==
    ISqrt((lat2 - lat1) * (lat2 - lat1) + (lon2 - lon1) * (lon2 - lon1))

----------------------------------------------------------------------------
(* Outlier rejector (gps/outlier-detection.js)                              *)

RECURSIVE angleDown(_)
angleDown(diff) == IF diff > 180 THEN angleDown(diff - 360) ELSE diff

RECURSIVE angleUp(_)
angleUp(diff) == IF diff < -180 THEN angleUp(diff + 360) ELSE diff

\* signed angle difference in degrees
angleDiff(a, b) == angleUp(angleDown(a - b))

\* perpendicular distance in metres from point to the segment p1-p2
pointToLineDistance(p1, p2, point) ==
    LET x2 == p2.lon - p1.lon
        y2 == p2.lat - p1.lat
        px == point.lon - p1.lon
        py == point.lat - p1.lat
        lineLenSq == x2 * x2 + y2 * y2
    IN  IF lineLenSq = 0 THEN ISqrt(px * px + py * py)
        ELSE LET t == Max2(0, Min2(SCALE, ((px * x2 + py * y2) * SCALE) \div lineLenSq))
                 dx == px * SCALE - t * x2
                 dy == py * SCALE - t * y2
             IN  ISqrt((dx \div SCALE) * (dx \div SCALE) + (dy \div SCALE) * (dy \div SCALE))

\* excess of value over limit, normalised by norm (all fixed-point)
Excess(value, limit, norm) ==
    IF value > limit THEN ((value - limit) * SCALE) \div norm ELSE 0

calculateAnomalyScore(prev, curr, dt, prevImpliedSpeed) ==
    LET dist == haversineDistance(prev.lat, prev.lon, curr.lat, curr.lon)
        gpsSpeed == (dist * SCALE * TicksPerSec) \div dt
        impliedAccel == (Abs(gpsSpeed - prevImpliedSpeed) * TicksPerSec) \div dt
        maxAccelMs2 == (maxAccelG * G) \div SCALE
        accel == Excess(impliedAccel, maxAccelMs2, maxAccelMs2)
        bearingChange == angleDiff(curr.bearing, prev.bearing)
        gpsYawRate == (bearingChange * SCALE * TicksPerSec) \div dt
        imuYawRate == (prev.yaw_rate + curr.yaw_rate) \div 2
        yaw == Excess(Abs(gpsYawRate - imuYawRate), maxYawRateDiff, maxYawRateDiff)
        speed == Excess(Abs(curr.speed - gpsSpeed), maxSpeedDiff, maxSpeedDiff)
        omega == (Abs(curr.yaw_rate) * PI) \div (180 * SCALE)
        expectedLatAcc == (curr.speed * omega) \div G
        latAcc == IF curr.speed > 2 * SCALE
                  THEN Excess(Abs(expectedLatAcc - Abs(curr.lateral_acc)), maxLatAccDiff, SCALE)
                  ELSE 0
    IN  [scores |-> [accel |-> accel, yaw |-> yaw, speed |-> speed, latAcc |-> latAcc],
         totalScore |-> 2 * accel + (3 * yaw) \div 2 + speed + latAcc,
         impliedSpeed |-> gpsSpeed]

NoScores == [accel |-> 0, yaw |-> 0, speed |-> 0, latAcc |-> 0]

\* first pass of filterGPSOutliers: anomalyScores[1..i]
RECURSIVE anomalyScores(_, _)

\* variant: a fix that is skipped for its time delta resets the running speed
anomalyScoresResetSpeed(points, i) ==
    IF i = 1
    THEN << [scores |-> NoScores, totalScore |-> 0, impliedSpeed |-> points[1].speed] >>
    ELSE LET before == anomalyScores(points, i - 1)
             prevImpliedSpeed == before[i - 1].impliedSpeed
             dt == points[i].timestamp - points[i - 1].timestamp
         IN  IF dt <= 0
             THEN Append(before, [scores |-> NoScores, totalScore |-> 0, impliedSpeed |-> 0])
             ELSE Append(before,
                         calculateAnomalyScore(points[i - 1], points[i], dt, prevImpliedSpeed))

anomalyScores(points, i) ==
    IF i = 1
    THEN << [scores |-> NoScores, totalScore |-> 0, impliedSpeed |-> points[1].speed] >>
    ELSE LET before == anomalyScores(points, i - 1)
             prevImpliedSpeed == before[i - 1].impliedSpeed
             dt == points[i].timestamp - points[i - 1].timestamp
         IN  IF dt <= 0
             THEN Append(before, [scores |-> NoScores, totalScore |-> 0,
                                  impliedSpeed |-> prevImpliedSpeed])
             ELSE Append(before,
                         calculateAnomalyScore(points[i - 1], points[i], dt, prevImpliedSpeed))

isTemporalOutlier(points, index) ==
    IF ~useTemporalCheck THEN FALSE
    ELSE IF index < 2 \/ index >= Len(points) THEN FALSE
    ELSE LET prev == points[index - 1]
             curr == points[index]
             next == points[index + 1]
             distPrevCurr == haversineDistance(prev.lat, prev.lon, curr.lat, curr.lon)
             distCurrNext == haversineDistance(curr.lat, curr.lon, next.lat, next.lon)
             distPrevNext == haversineDistance(prev.lat, prev.lon, next.lat, next.lon)
             \* triangleRatio > cfg.triangleRatio, with the division multiplied out
             bigDetour == (distPrevCurr + distCurrNext) * SCALE * SCALE
                            > triangleRatio * Max2(distPrevNext * SCALE, SCALE \div 10)
             perpDistance == pointToLineDistance(prev, next, curr)
         IN  bigDetour /\ perpDistance > minPerpDistance

\* an entry of the outliers list: the fix, spread, plus the verdict
Rejected(fix, reason, value) ==
    fix @@ ("reason" :> reason) @@ ("value" :> value)

\* second pass of filterGPSOutliers over points[2..i]
RECURSIVE physicsPass(_, _, _)

\* variant: the kept list starts empty, the first fix is lost
physicsPassLosesFirst(points, scores, i) ==
    IF i = 1 THEN [filtered |-> << >>, outliers |-> << >>]
    ELSE LET acc == physicsPass(points, scores, i - 1)
             score == scores[i]
             isTemporal == isTemporalOutlier(points, i)
             isOutlier == \/ score.totalScore > anomalyThreshold
                          \/ (isTemporal /\ score.totalScore > anomalyThreshold \div 2)
         IN  IF isOutlier
             THEN [acc EXCEPT !.outliers =
                      Append(@, Rejected(points[i],
                                         IF isTemporal THEN "temporal+physics" ELSE "physics",
                                         score.totalScore))]
             ELSE [acc EXCEPT !.filtered = Append(@, points[i])]

\* variant: a temporal outlier is rejected whatever its score
physicsPassTemporalAlone(points, scores, i) ==
    IF i = 1 THEN [filtered |-> << points[1] >>, outliers |-> << >>]
    ELSE LET acc == physicsPass(points, scores, i - 1)
             score == scores[i]
             isTemporal == isTemporalOutlier(points, i)
             isOutlier == score.totalScore > anomalyThreshold \/ isTemporal
         IN  IF isOutlier
             THEN [acc EXCEPT !.outliers =
                      Append(@, Rejected(points[i],
                                         IF isTemporal THEN "temporal+physics" ELSE "physics",
                                         score.totalScore))]
             ELSE [acc EXCEPT !.filtered = Append(@, points[i])]

\* variant: the else of the second pass is lost, a rejected fix is kept too
physicsPassNoElse(points, scores, i) ==
    IF i = 1 THEN [filtered |-> << points[1] >>, outliers |-> << >>]
    ELSE LET acc == physicsPass(points, scores, i - 1)
             score == scores[i]
             isTemporal == isTemporalOutlier(points, i)
             isOutlier == \/ score.totalScore > anomalyThreshold
                          \/ (isTemporal /\ score.totalScore > anomalyThreshold \div 2)
         IN  IF isOutlier
             THEN [filtered |-> Append(acc.filtered, points[i]),
                   outliers |-> Append(acc.outliers,
                                       Rejected(points[i],
                                                IF isTemporal THEN "temporal+physics" ELSE "physics",
                                                score.totalScore))]
             ELSE [acc EXCEPT !.filtered = Append(@, points[i])]

physicsPass(points, scores, i) ==
    IF i = 1 THEN [filtered |-> << points[1] >>, outliers |-> << >>]
    ELSE LET acc == physicsPass(points, scores, i - 1)
             score == scores[i]
             isTemporal == isTemporalOutlier(points, i)
             isOutlier == \/ score.totalScore > anomalyThreshold
                          \/ (isTemporal /\ score.totalScore > anomalyThreshold \div 2)
         IN  IF isOutlier
             THEN [acc EXCEPT !.outliers =
                      Append(@, Rejected(points[i],
                                         IF isTemporal THEN "temporal+physics" ELSE "physics",
                                         score.totalScore))]
             ELSE [acc EXCEPT !.filtered = Append(@, points[i])]

\* filterGPSOutliersSimple over points[2..i]
RECURSIVE simplePass(_, _)

\* variant: the predecessor is the previous input fix, not the last kept one
simplePassPrevInput(points, i) ==
    IF i = 1 THEN [filtered |-> << points[1] >>, outliers |-> << >>]
    ELSE LET acc == simplePass(points, i - 1)
             prev == points[i - 1]
             curr == points[i]
             dt == curr.timestamp - prev.timestamp
             dist == haversineDistance(prev.lat, prev.lon, curr.lat, curr.lon)
             speed == (dist * SCALE * TicksPerSec) \div dt
             maxSpeedMs == (maxSpeedKmh * SCALE * 10) \div 36
         IN  IF dt <= 0 THEN [acc EXCEPT !.filtered = Append(@, curr)]
             ELSE IF speed > maxSpeedMs
                  THEN [acc EXCEPT !.outliers = Append(@, Rejected(curr, "speed", (speed * 36) \div 10))]
             ELSE IF dist > maxJumpMeters
                  THEN [acc EXCEPT !.outliers = Append(@, Rejected(curr, "jump", dist))]
             ELSE [acc EXCEPT !.filtered = Append(@, curr)]

simplePass(points, i) ==
    IF i = 1 THEN [filtered |-> << points[1] >>, outliers |-> << >>]
    ELSE LET acc == simplePass(points, i - 1)
             prev == acc.filtered[Len(acc.filtered)]
             curr == points[i]
             dt == curr.timestamp - prev.timestamp
             dist == haversineDistance(prev.lat, prev.lon, curr.lat, curr.lon)
             \* speed = dist / dt in milli m/s; maxSpeedMs = maxSpeedKmh / 3.6
             speed == (dist * SCALE * TicksPerSec) \div dt
             maxSpeedMs == (maxSpeedKmh * SCALE * 10) \div 36
         IN  IF dt <= 0 THEN [acc EXCEPT !.filtered = Append(@, curr)]
             ELSE IF speed > maxSpeedMs
                  THEN [acc EXCEPT !.outliers = Append(@, Rejected(curr, "speed", (speed * 36) \div 10))]
             ELSE IF dist > maxJumpMeters
                  THEN [acc EXCEPT !.outliers = Append(@, Rejected(curr, "jump", dist))]
             ELSE [acc EXCEPT !.filtered = Append(@, curr)]

filterGPSOutliersSimple(points) == simplePass(points, Len(points))

filterGPSOutliers(points, cfg) ==
    IF ~cfg.enabled THEN [filtered |-> points, outliers |-> << >>]
    ELSE IF Len(points) < 2 THEN [filtered |-> points, outliers |-> << >>]
    ELSE IF cfg.method = "simple" THEN filterGPSOutliersSimple(points)
    ELSE physicsPass(points, anomalyScores(points, Len(points)), Len(points))

----------------------------------------------------------------------------
(* GPS simulation (gps/simulation.js)                                       *)

\* downsampleGPS: every downsampleRatio-th sample, tagged with its 0-based index
downsampleGPS(data) ==
    [k \in 1..((Len(data) + downsampleRatio - 1) \div downsampleRatio) |->
        data[(k - 1) * downsampleRatio + 1]
            @@ ("originalIndex" :> (k - 1) * downsampleRatio)]

\* addGPSNoise with the Gaussian draws given: draws[k] = <<noiseLat, noiseLon>>
\* in metres; one metre is one unit of lat and of lon
addGPSNoise(points, draws) ==
    [k \in 1..Len(points) |->
        [points[k] EXCEPT !.lat = @ + draws[k][1], !.lon = @ + draws[k][2]]]

----------------------------------------------------------------------------
(* Interpolation (interpolation/linear.js, interpolation/spline.js)         *)

\* the segment search of both resamplers; indices are 1-based, so the source's
\* gpsIdx is the result minus one
RECURSIVE findSegment(_, _, _)
findSegment(points, t, idx) ==
    IF idx < Len(points) /\ points[idx + 1].timestamp <= t
    THEN findSegment(points, t, idx + 1)
    ELSE idx

PositionalFix(t, lat, lon) == [timestamp |-> t, lat |-> lat, lon |-> lon]

\* variant of the parameter below, measured back from the end of the segment
paramUFromEnd(t, t0, t1) == RoundSigned((t1 - t) * One, t1 - t0)

\* the interpolation parameter u = (t - t0) / (t1 - t0), in units of 1 / One
paramU(t, t0, t1) ==
    IF t1 > t0 THEN RoundSigned((t - t0) * One, t1 - t0) ELSE -RoundSigned((t - t0) * One, t0 - t1)

\* p1 + u * (p2 - p1)
lerp(p1, p2, u) == fadd(p1, fmul(fsub(p2, p1), u))

\* variant: the output sample is stamped with the segment's start time
linearAtStampP1(noisyGPS, t) ==
    LET idx == findSegment(noisyGPS, t, 1)
        last == noisyGPS[Len(noisyGPS)]
    IN  IF idx >= Len(noisyGPS) THEN PositionalFix(t, last.lat, last.lon)
        ELSE LET p1 == noisyGPS[idx]
                 p2 == noisyGPS[idx + 1]
                 u == paramU(t, p1.timestamp, p2.timestamp)
             IN  PositionalFix(p1.timestamp, lerp(p1.lat, p2.lat, u), lerp(p1.lon, p2.lon, u))

\* variant: the beyond-the-last-fix test is off by one
linearAtOffByOne(noisyGPS, t) ==
    LET idx == findSegment(noisyGPS, t, 1)
        last == noisyGPS[Len(noisyGPS)]
    IN  IF idx >= Len(noisyGPS) - 1 THEN PositionalFix(t, last.lat, last.lon)
        ELSE LET p1 == noisyGPS[idx]
                 p2 == noisyGPS[idx + 1]
                 u == paramU(t, p1.timestamp, p2.timestamp)
             IN  PositionalFix(t, lerp(p1.lat, p2.lat, u), lerp(p1.lon, p2.lon, u))

linearAt(noisyGPS, t) ==
    LET idx == findSegment(noisyGPS, t, 1)
        last == noisyGPS[Len(noisyGPS)]
    IN  IF idx >= Len(noisyGPS) THEN PositionalFix(t, last.lat, last.lon)
        ELSE LET p1 == noisyGPS[idx]
                 p2 == noisyGPS[idx + 1]
                 u == paramU(t, p1.timestamp, p2.timestamp)
             IN  PositionalFix(t, lerp(p1.lat, p2.lat, u), lerp(p1.lon, p2.lon, u))

applyLinearInterpolation(data, noisyGPS) ==
    IF Len(noisyGPS) < 2 THEN noisyGPS
    ELSE LET startIdx == noisyGPS[1].originalIndex
         IN  [k \in 1..(Len(data) - startIdx) |-> linearAt(noisyGPS, data[startIdx + k].timestamp)]

\* variant: a sign slip in the quadratic coefficient
catmullRomSignSlip(p0, p1, p2, p3, t) ==
    LET t2 == fmul(t, t)
        t3 == fmul(t2, t)
        linearTerm == fmul(fadd(-p0, p2), t)
        quadratic == fmul(fadd(fadd(fsub(ftimes(2, p0), ftimes(5, p1)), ftimes(4, p2)), p3), t2)
        cubic == fmul(fadd(fsub(fadd(-p0, ftimes(3, p1)), ftimes(3, p2)), p3), t3)
    IN  RoundSigned(fadd(fadd(fadd(ftimes(2, p1), linearTerm), quadratic), cubic), 2)

\* Catmull-Rom basis, evaluated left to right as the source writes it;
\* p0..p3 are floats in the position unit, t is in units of 1 / One
catmullRom(p0, p1, p2, p3, t) ==
    LET t2 == fmul(t, t)
        t3 == fmul(t2, t)
        linearTerm == fmul(fadd(-p0, p2), t)
        quadratic == fmul(fsub(fadd(fsub(ftimes(2, p0), ftimes(5, p1)), ftimes(4, p2)), p3), t2)
        cubic == fmul(fadd(fsub(fadd(-p0, ftimes(3, p1)), ftimes(3, p2)), p3), t3)
    IN  RoundSigned(fadd(fadd(fadd(ftimes(2, p1), linearTerm), quadratic), cubic), 2)

\* the four control indices of the segment starting at idx (1-based)
controlIndices(n, idx) ==
    [i0 |-> Max2(1, idx - 1), i1 |-> idx, i2 |-> Min2(n, idx + 1), i3 |-> Min2(n, idx + 2)]

splineAt(noisyGPS, t) ==
    LET idx == findSegment(noisyGPS, t, 1)
        last == noisyGPS[Len(noisyGPS)]
    IN  IF idx >= Len(noisyGPS) THEN PositionalFix(t, last.lat, last.lon)
        ELSE LET c == controlIndices(Len(noisyGPS), idx)
                 u == paramU(t, noisyGPS[c.i1].timestamp, noisyGPS[c.i2].timestamp)
             IN  PositionalFix(t,
                    catmullRom(noisyGPS[c.i0].lat, noisyGPS[c.i1].lat,
                               noisyGPS[c.i2].lat, noisyGPS[c.i3].lat, u),
                    catmullRom(noisyGPS[c.i0].lon, noisyGPS[c.i1].lon,
                               noisyGPS[c.i2].lon, noisyGPS[c.i3].lon, u))

applySplineInterpolation(data, noisyGPS) ==
    IF Len(noisyGPS) < 2 THEN noisyGPS
    ELSE LET startIdx == noisyGPS[1].originalIndex
         IN  [k \in 1..(Len(data) - startIdx) |-> splineAt(noisyGPS, data[startIdx + k].timestamp)]

----------------------------------------------------------------------------
(* Dense linear algebra (math/matrix.js); a matrix is a sequence of rows    *)

\* an array with every element computed once (a JavaScript array holds
\* values, not expressions)
Array(f) == SubSeq(f, 1, Len(f))

createMatrix(rows, cols, fill) == Array([i \in 1..rows |-> Array([j \in 1..cols |-> fill])])

eye(n) == Array([i \in 1..n |-> Array([j \in 1..n |-> IF i = j THEN SCALE ELSE 0])])

transpose(A) == Array([j \in 1..Len(A[1]) |-> Array([i \in 1..Len(A) |-> A[i][j]])])

RECURSIVE dotRowCol(_, _, _, _, _)
\* sum over k' <= k of A[i][k'] * B[k'][j], not yet rescaled
dotRowCol(A, B, i, j, k) ==
    IF k = 0 THEN 0 ELSE dotRowCol(A, B, i, j, k - 1) + A[i][k] * B[k][j]

matmul(A, B) ==
    Array([i \in 1..Len(A) |->
             Array([j \in 1..Len(B[1]) |-> dotRowCol(A, B, i, j, Len(B)) \div SCALE])])

matadd(A, B) ==
    Array([i \in 1..Len(A) |-> Array([j \in 1..Len(A[1]) |-> A[i][j] + B[i][j]])])

matsub(A, B) ==
    Array([i \in 1..Len(A) |-> Array([j \in 1..Len(A[1]) |-> A[i][j] - B[i][j]])])

RECURSIVE dotRowVec(_, _, _, _)
dotRowVec(M, v, i, j) ==
    IF j = 0 THEN 0 ELSE dotRowVec(M, v, i, j - 1) + M[i][j] * v[j]

matvec(M, v) == Array([i \in 1..Len(M) |-> dotRowVec(M, v, i, Len(v)) \div SCALE])

RECURSIVE pivotRow(_, _, _, _)
\* the row k >= i with the largest |A[k][i]|, the first such row on ties
pivotRow(A, i, k, maxRow) ==
    IF k > Len(A) THEN maxRow
    ELSE pivotRow(A, i, k + 1, IF Abs(A[k][i]) > Abs(A[maxRow][i]) THEN k ELSE maxRow)

swapRows(A, i, k) == [A EXCEPT ![i] = A[k], ![k] = A[i]]

\* row i divided by the pivot
normalizeRow(A, i, pivot) ==
    [A EXCEPT ![i] = Array([j \in 1..Len(A) |-> (A[i][j] * SCALE) \div pivot])]

\* A[k] -= factor[k] * N[i] for every row k other than i
eliminate(A, N, factor, i) ==
    Array([k \in 1..Len(A) |->
             IF k = i THEN N[i]
             ELSE Array([j \in 1..Len(A) |-> A[k][j] - (factor[k] * N[i][j]) \div SCALE])])

RECURSIVE gaussJordan(_, _, _)
\* columns i.. of the elimination; the empty matrix when a pivot vanishes.  A
\* pivot below 1e-12 in magnitude is a pivot of 0 at the model's resolution.
gaussJordan(A, I, i) ==
    IF i > Len(A) THEN I
    ELSE LET maxRow == pivotRow(A, i, i + 1, i)
             A1 == swapRows(A, i, maxRow)
             I1 == swapRows(I, i, maxRow)
             pivot == A1[i][i]
         IN  IF pivot = 0 THEN << >>
             ELSE LET A2 == normalizeRow(A1, i, pivot)
                      I2 == normalizeRow(I1, i, pivot)
                      factor == Array([k \in 1..Len(A) |-> A2[k][i]])
                  IN  gaussJordan(eliminate(A2, A2, factor, i),
                                  eliminate(I2, I2, factor, i), i + 1)

\* Gauss-Jordan inverse; the identity when the matrix is singular
inverse(M) ==
    LET I == gaussJordan(M, eye(Len(M)), 1)
    IN  IF Len(I) = 0 THEN eye(Len(M)) ELSE I

----------------------------------------------------------------------------
(* Geodesy, continued                                                       *)

TwoPI == 2 * PI

RECURSIVE normalizeDown(_)
normalizeDown(angle) == IF angle > PI THEN normalizeDown(angle - TwoPI) ELSE angle

RECURSIVE normalizeUp(_)
normalizeUp(angle) == IF angle < -PI THEN normalizeUp(angle + TwoPI) ELSE angle

\* variant: the second loop is missing
normalizeAngleDownOnly(angle) == normalizeDown(angle)

normalizeAngle(angle) == normalizeUp(normalizeDown(angle))

\* Math.sin on [0, PI], by Bhaskara's rational approximation
sinHalfTurn(x) ==
    LET xr == x * (PI - x)
    IN  (16 * xr * 10) \div ((5 * PI * PI - 4 * xr) \div 100)

\* Math.sin, fixed-point in and out
sin(x) ==
    LET r == x % TwoPI
    IN  IF r <= PI THEN sinHalfTurn(r) ELSE -sinHalfTurn(r - PI)

\* Math.cos
cos(x) == sin(x + PI \div 2)

\* gpsToLocal: lat/lon to local east/north, fixed-point metres
gpsToLocal(lat, lon, lat0, lon0) ==
    [px |-> (lon - lon0) * SCALE, py |-> (lat - lat0) * SCALE]

\* localToGps: fixed-point metres back to lat/lon units
localToGps(px, py, lat0, lon0) ==
    [lat |-> lat0 + py \div SCALE, lon |-> lon0 + px \div SCALE]

----------------------------------------------------------------------------
(* 7-state EKF (filters/ekf-ins-gps.js)                                     *)

\* CONFIG.ekf as config.js sets it: 0.5 m/s2, 0.02 rad/s, 0.001, 5.0 m, 2.0 m/s
DefaultEkf ==
    [sigma_accel |-> SCALE \div 2, sigma_gyro |-> SCALE \div 50, sigma_bias |-> SCALE \div 1000,
     gps_pos_noise |-> 5 * SCALE, min_speed_for_heading |-> 2 * SCALE]

\* the parameters are read from CONFIG.ekf at every use
sigma_accel == configEkf.sigma_accel
sigma_gyro == configEkf.sigma_gyro
sigma_bias == configEkf.sigma_bias
gps_pos_noise == configEkf.gps_pos_noise
min_speed_for_heading == configEkf.min_speed_for_heading

\* a nullable value is a sequence: empty for null, else of its one value
NULL == << >>
Some(v) == << v >>

Mul(a, b) == (a * b) \div SCALE

Diag(d) == Array([i \in 1..Len(d) |-> Array([j \in 1..Len(d) |-> IF i = j THEN d[i] ELSE 0])])

\* new INSGPSFusion()
newINSGPSFusion == [x |-> NULL, P |-> NULL, lat0 |-> NULL, lon0 |-> NULL, initialized |-> FALSE]

initialize(self, gpsPoint) ==
    LET psi0 == (gpsPoint.bearing * PI) \div 180
        speed == gpsPoint.speed
        vx0 == Mul(speed, sin(psi0))
        vy0 == Mul(speed, cos(psi0))
    IN  [x |-> <<0, 0, vx0, vy0, psi0, 0, 0>>,
         P |-> Diag(<<10 * SCALE, 10 * SCALE, SCALE, SCALE, SCALE \div 10, SCALE \div 10, SCALE \div 10>>),
         lat0 |-> Some(gpsPoint.lat),
         lon0 |-> Some(gpsPoint.lon),
         initialized |-> TRUE]

predict(self, imu, dt) ==
    IF ~self.initialized THEN self
    ELSE LET px == self.x[1]
             py == self.x[2]
             vx == self.x[3]
             vy == self.x[4]
             psi == self.x[5]
             b_ax == self.x[6]
             b_ay == self.x[7]
             a_lateral == -Mul(imu.lateral_acc, G) - b_ax
             a_longitudinal == Mul(imu.longitudinal_acc, G) - b_ay
             omega_z == (-imu.yaw_rate * PI) \div (180 * SCALE)
             cos_psi == cos(psi)
             sin_psi == sin(psi)
             ax_world == Mul(a_lateral, cos_psi) + Mul(a_longitudinal, sin_psi)
             ay_world == Mul(-a_lateral, sin_psi) + Mul(a_longitudinal, cos_psi)
             dt2 == Mul(dt, dt)
             px_new == px + Mul(vx, dt) + Mul(ax_world, dt2) \div 2
             py_new == py + Mul(vy, dt) + Mul(ay_world, dt2) \div 2
             vx_new == vx + Mul(ax_world, dt)
             vy_new == vy + Mul(ay_world, dt)
             psi_new == normalizeAngle(psi + Mul(omega_z, dt))
             dax_dpsi == Mul(-a_lateral, sin_psi) + Mul(a_longitudinal, cos_psi)
             day_dpsi == Mul(-a_lateral, cos_psi) - Mul(a_longitudinal, sin_psi)
             F == << <<SCALE, 0, dt, 0, Mul(dax_dpsi, dt2) \div 2, Mul(-cos_psi, dt2) \div 2, Mul(-sin_psi, dt2) \div 2>>,
                     <<0, SCALE, 0, dt, Mul(day_dpsi, dt2) \div 2, Mul(sin_psi, dt2) \div 2, Mul(-cos_psi, dt2) \div 2>>,
                     <<0, 0, SCALE, 0, Mul(dax_dpsi, dt), Mul(-cos_psi, dt), Mul(-sin_psi, dt)>>,
                     <<0, 0, 0, SCALE, Mul(day_dpsi, dt), Mul(sin_psi, dt), Mul(-cos_psi, dt)>>,
                     <<0, 0, 0, 0, SCALE, 0, 0>>,
                     <<0, 0, 0, 0, 0, SCALE, 0>>,
                     <<0, 0, 0, 0, 0, 0, SCALE>> >>
             sa2 == Mul(sigma_accel, sigma_accel)
             q_pos == Mul(sa2, Mul(dt2, dt2)) \div 4
             q_vel == Mul(sa2, dt2)
             q_psi == Mul(Mul(sigma_gyro, sigma_gyro), dt2)
             q_bias == Mul(Mul(sigma_bias, sigma_bias), dt)
             Q == Diag(<<q_pos, q_pos, q_vel, q_vel, q_psi, q_bias, q_bias>>)
         IN  [self EXCEPT
                !.P = matadd(matmul(F, matmul(self.P, transpose(F))), Q),
                !.x = <<px_new, py_new, vx_new, vy_new, psi_new, b_ax, b_ay>>]

update(self, gpsPoint) ==
    IF ~self.initialized THEN self
    ELSE LET zl == gpsToLocal(gpsPoint.lat, gpsPoint.lon, self.lat0[1], self.lon0[1])
             z == <<zl.px, zl.py>>
             H == << <<SCALE, 0, 0, 0, 0, 0, 0>>,
                     <<0, SCALE, 0, 0, 0, 0, 0>> >>
             r == IF gpsPoint.accuracy # 0 THEN gpsPoint.accuracy ELSE gps_pos_noise
             R == << <<Mul(r, r), 0>>, <<0, Mul(r, r)>> >>
             y == <<z[1] - self.x[1], z[2] - self.x[2]>>
             S == matadd(matmul(H, matmul(self.P, transpose(H))), R)
             K == matmul(matmul(self.P, transpose(H)), inverse(S))
             Ky == matvec(K, y)
             x1 == Array([i \in 1..7 |-> self.x[i] + Ky[i]])
             IKH == matsub(eye(7), matmul(K, H))
         IN  [self EXCEPT
                !.x = [x1 EXCEPT ![5] = normalizeAngle(x1[5])],
                !.P = matmul(IKH, self.P)]

\* variant: the guard is lost, an uninitialised filter reports the origin
getPositionNoGuard(self) ==
    IF ~self.initialized THEN Some([lat |-> 0, lon |-> 0])
    ELSE Some(localToGps(self.x[1], self.x[2], self.lat0[1], self.lon0[1]))

\* variant: a position at the origin is taken for no position
getPositionFalsy(self) ==
    IF ~self.initialized \/ self.x[1] = 0 THEN NULL
    ELSE Some(localToGps(self.x[1], self.x[2], self.lat0[1], self.lon0[1]))

getPosition(self) ==
    IF ~self.initialized THEN NULL
    ELSE Some(localToGps(self.x[1], self.x[2], self.lat0[1], self.lon0[1]))

RECURSIVE firstFastFix(_, _)
\* the search for the initialisation fix: 0-based index of the first fix from
\* i on whose speed exceeds the threshold, 0 when there is none
firstFastFix(noisyGPS, i) ==
    IF i >= Len(noisyGPS) THEN 0
    ELSE IF noisyGPS[i + 1].speed > min_speed_for_heading THEN i
    ELSE firstFastFix(noisyGPS, i + 1)

\* noisyGPS[k]?.timestamp ?? Infinity, k 0-based
timestampOrInfinity(noisyGPS, k) ==
    IF k < Len(noisyGPS) THEN [finite |-> TRUE, at |-> noisyGPS[k + 1].timestamp]
    ELSE [finite |-> FALSE, at |-> 0]

\* the loop of runSensorFusion from sample i (0-based) on: predict, update
\* when a fix is due, push the position
RECURSIVE sensorFusionLoop(_, _, _, _, _, _, _)
sensorFusionLoop(self, data, noisyGPS, gIdx, nextT, i, traj) ==
    IF i >= Len(data) THEN traj
    ELSE LET imu == data[i + 1]
             predicted == predict(self, imu, SCALE \div imuHz)
             due == nextT.finite /\ imu.timestamp >= nextT.at /\ gIdx + 1 < Len(noisyGPS)
             after == IF due THEN update(predicted, noisyGPS[gIdx + 2]) ELSE predicted
             pos == getPosition(after)
         IN  sensorFusionLoop(after, data, noisyGPS,
                              IF due THEN gIdx + 1 ELSE gIdx,
                              IF due THEN timestampOrInfinity(noisyGPS, gIdx + 2) ELSE nextT,
                              i + 1,
                              IF pos # NULL
                              THEN Append(traj, PositionalFix(imu.timestamp, pos[1].lat, pos[1].lon))
                              ELSE traj)

\* runSensorFusion as one call, under the CONFIG.ekf of the moment
runSensorFusion(data, noisyGPS) ==
    LET initIdx == firstFastFix(noisyGPS, 0)
    IN  sensorFusionLoop(initialize(newINSGPSFusion, noisyGPS[initIdx + 1]), data, noisyGPS,
                         initIdx, timestampOrInfinity(noisyGPS, initIdx + 1),
                         noisyGPS[initIdx + 1].originalIndex, << >>)

\* the control points of smoothTrajectoryWithSpline: the 1-based indices of
\* every downsampleRatio-th point, and the last point if it is not among them
RECURSIVE everyNth(_, _, _)
everyNth(n, ratio, i) ==
    IF i >= n THEN << >> ELSE << i + 1 >> \o everyNth(n, ratio, i + ratio)

controlPointIndices(n, ratio) ==
    LET c == everyNth(n, ratio, 0)
    IN  IF c[Len(c)] # n THEN Append(c, n) ELSE c

smoothAt(controlPoints, point) ==
    LET t == point.timestamp
        idx == findSegment(controlPoints, t, 1)
    IN  IF idx >= Len(controlPoints) THEN point
        ELSE LET c == controlIndices(Len(controlPoints), idx)
                 t0 == controlPoints[c.i1].timestamp
                 t1 == controlPoints[c.i2].timestamp
                 u == IF t1 > t0 THEN paramU(t, t0, t1) ELSE 0
             IN  PositionalFix(t,
                    catmullRom(controlPoints[c.i0].lat, controlPoints[c.i1].lat,
                               controlPoints[c.i2].lat, controlPoints[c.i3].lat, u),
                    catmullRom(controlPoints[c.i0].lon, controlPoints[c.i1].lon,
                               controlPoints[c.i2].lon, controlPoints[c.i3].lon, u))

smoothTrajectoryWithSpline(traj, ratio) ==
    IF Len(traj) < ratio * 2 THEN traj
    ELSE LET ci == controlPointIndices(Len(traj), ratio)
             controlPoints == [k \in 1..Len(ci) |-> traj[ci[k]]]
         IN  IF Len(controlPoints) < 4 THEN traj
             ELSE [k \in 1..Len(traj) |-> smoothAt(controlPoints, traj[k])]

----------------------------------------------------------------------------
(* Specification of the outlier rejector: a fix sequence and a             *)
(* configuration are drawn, filterGPSOutliers runs on the sequence and     *)
(* then once more on the survivors.                                        *)

MaxFixes == 3

NoResult == [filtered |-> << >>, outliers |-> << >>]

Positions == { <<0, 0>>, <<20, 0>>, <<25, 30>>, <<300, 0>> }
Speeds == { 0, 20 * SCALE }
FixGaps == { 0, TicksPerSec }

FixChoices == [gap : FixGaps, pos : Positions, speed : Speeds]

RECURSIVE TimeOf(_, _)
TimeOf(ch, i) == IF i = 1 THEN 0 ELSE TimeOf(ch, i - 1) + ch[i].gap

\* the downsampled fix sequence described by a sequence of choices
FixesOf(ch) ==
    [i \in 1..Len(ch) |->
        [timestamp |-> TimeOf(ch, i), lat |-> ch[i].pos[1], lon |-> ch[i].pos[2],
         speed |-> ch[i].speed, bearing |-> 0, accuracy |-> 5 * SCALE,
         lateral_acc |-> 0, longitudinal_acc |-> 0, yaw_rate |-> 0,
         originalIndex |-> (i - 1) * downsampleRatio]]

\* the first fix is at the origin at time 0; the later ones are placed against it
FirstChoices == [gap : {0}, pos : {<<0, 0>>}, speed : Speeds]

FixSequences ==
    { << >> } \cup
    UNION { { FixesOf(<<first>> \o rest) : first \in FirstChoices, rest \in [1..(n - 1) -> FixChoices] }
            : n \in 1..MaxFixes }

OutlierConfigs == [enabled : BOOLEAN, method : {"physics", "simple"}]

OutlierIdle ==
    /\ gpsPoints = << >>
    /\ outlierCfg = [enabled |-> TRUE, method |-> "physics"]
    /\ firstRun = NoResult
    /\ secondRun = NoResult
    /\ opc = "idle"

ReconIdle ==
    /\ fullData = << >>
    /\ gpsData = << >>
    /\ linear = << >>
    /\ spline = << >>
    /\ rpc = "idle"

Infinity == [finite |-> FALSE, at |-> 0]
Finite(t) == [finite |-> TRUE, at |-> t]

EkfIdle ==
    /\ ekf = newINSGPSFusion
    /\ gpsIdx = 0
    /\ nextGpsTime = Infinity
    /\ sampleIdx = 0
    /\ trajectory = << >>
    /\ lastStep = "none"
    /\ ekfRaw = << >>
    /\ ekfSmooth = << >>

NoMetrics == [count |-> -1]

ConfigIdle == configEkf = DefaultEkf

ApiIdle ==
    /\ calls = 0
    /\ returned = NULL

RunnerIdle ==
    /\ expIdx = 0
    /\ tpc = "idle"
    /\ trialMetrics = NoMetrics
    /\ results = << >>
    /\ originalConfig = << >>
    /\ originalEkfConfig = << >>
    /\ ekfBest = << >>
    /\ algResults = << >>

CsvIdle ==
    /\ fullDataRaw = << >>
    /\ randoms = << >>
    /\ drawn = 0
    /\ laps = << >>
    /\ lapIdx = 0
    /\ path = "none"
    /\ lapOut = << >>
    /\ allLapsData = << >>
    /\ selectedLapData = << >>
    /\ progress = << >>
    /\ thrown = ""
    /\ cpc = "idle"

NoRefs == [fullData |-> 0, gpsData |-> 0, linear |-> 0, spline |-> 0, ekfRaw |-> 0, ekfSmooth |-> 0]

HeapIdle ==
    /\ heap = << >>
    /\ refs = NoRefs
    /\ hpc = "idle"

KalmanIdle ==
    /\ latMeasurements = << >>
    /\ lonMeasurements = << >>
    /\ filtered = << >>
    /\ kpc = "idle"

NoExtrema == [minPoints |-> << >>, maxPoints |-> << >>]

ExtremaIdle ==
    /\ speedData = << >>
    /\ allExtrema = << >>
    /\ merged = << >>
    /\ changed = FALSE
    /\ extrema = NoExtrema
    /\ xpc = "idle"

\* the state the constructor of TelemetryVisualization sets, no lap loaded
PlayIdle ==
    /\ isPlaying = FALSE
    /\ lastFrameTime = NULL
    /\ currentTime = 0
    /\ playbackSpeed = 1
    /\ hasLapData = FALSE
    /\ clock = 0
    /\ pendingFrames = 0
    /\ runningFrames = 0

MoreIdle == KalmanIdle /\ ExtremaIdle /\ PlayIdle

RestIdle == ConfigIdle /\ ApiIdle /\ RunnerIdle /\ CsvIdle /\ HeapIdle /\ MoreIdle

EnrichIdle ==
    /\ rawPoints = << >>
    /\ enhanced = << >>
    /\ apc = "idle"

MetricsIdle ==
    /\ groundTruth = << >>
    /\ estimated = << >>
    /\ metrics = NoMetrics
    /\ mpc = "idle"

OutlierInit ==
    /\ gpsPoints \in FixSequences
    /\ outlierCfg \in OutlierConfigs
    /\ firstRun = NoResult
    /\ secondRun = NoResult
    /\ opc = "input"
    /\ ReconIdle
    /\ EkfIdle
    /\ RestIdle
    /\ EnrichIdle
    /\ MetricsIdle

FilterOnce ==
    /\ opc = "input"
    /\ firstRun' = filterGPSOutliers(gpsPoints, outlierCfg)
    /\ opc' = "filtered"
    /\ UNCHANGED <<gpsPoints, outlierCfg, secondRun, reconVars, ekfVars, analysisVars>>

FilterAgain ==
    /\ opc = "filtered"
    /\ secondRun' = filterGPSOutliers(firstRun.filtered, outlierCfg)
    /\ opc' = "refiltered"
    /\ UNCHANGED <<gpsPoints, outlierCfg, firstRun, reconVars, ekfVars, analysisVars>>

OutlierNext == FilterOnce \/ FilterAgain

OutlierSpec == OutlierInit /\ [][OutlierNext]_vars

(* Specification of the outlier rejector on fix sequences whose timestamps  *)
(* repeat or run backwards, in physics mode.                                *)

DisorderGaps == { 0 - TicksPerSec, 0, TicksPerSec }

DisorderChoices == [gap : DisorderGaps, pos : Positions, speed : {0}]

DisorderSequences ==
    UNION { { FixesOf(<<first>> \o rest) : first \in FirstChoices, rest \in [1..(n - 1) -> DisorderChoices] }
            : n \in 2..MaxFixes }

DisorderInit ==
    /\ gpsPoints \in DisorderSequences
    /\ outlierCfg = [enabled |-> TRUE, method |-> "physics"]
    /\ firstRun = NoResult
    /\ secondRun = NoResult
    /\ opc = "input"
    /\ ReconIdle
    /\ EkfIdle
    /\ RestIdle
    /\ EnrichIdle
    /\ MetricsIdle

DisorderSpec == DisorderInit /\ [][OutlierNext]_vars

----------------------------------------------------------------------------
(* Properties of the outlier rejector                                       *)

\* the fix an outliers entry was made from
FixOf(r) == [f \in DOMAIN r \ {"reason", "value"} |-> r[f]]

RECURSIVE Pick(_, _, _)
\* the elements of s at the positions in K, in the order of s, from position i on
Pick(s, K, i) ==
    IF i > Len(s) THEN << >>
    ELSE IF i \in K THEN << s[i] >> \o Pick(s, K, i + 1)
    ELSE Pick(s, K, i + 1)

IsPartition(input, res) ==
    /\ Len(res.filtered) + Len(res.outliers) = Len(input)
    /\ \E K \in SUBSET (1..Len(input)) :
          /\ res.filtered = Pick(input, K, 1)
          /\ [i \in 1..Len(res.outliers) |-> FixOf(res.outliers[i])]
               = Pick(input, (1..Len(input)) \ K, 1)

\* C1: in every configuration the kept and rejected lists returned by
\* filterGPSOutliers partition the input: each input fix is in exactly one of
\* them, the lengths add up, and the kept fixes keep their input order.
C1_Partition ==
    opc # "input" => IsPartition(gpsPoints, firstRun)

\* a run in which the rejector both kept and rejected fixes
C1_Witness ==
    /\ opc = "filtered"
    /\ Len(firstRun.outliers) >= 1
    /\ Len(firstRun.filtered) >= 2

\* C4 as claimed: a second run on the kept list rejects nothing
C4_Idempotent ==
    opc = "refiltered" => secondRun.filtered = firstRun.filtered

IsSubsequence(a, b) == \E K \in SUBSET (1..Len(b)) : a = Pick(b, K, 1)

\* C4 (amended): the rejector is idempotent in simple mode and when it is
\* disabled; in physics mode a second run on the kept list returns a
\* subsequence of the kept list, which may be shorter.
C4_IdempotentSimple ==
    opc = "refiltered" =>
        /\ IsSubsequence(secondRun.filtered, firstRun.filtered)
        /\ (~outlierCfg.enabled \/ outlierCfg.method = "simple")
              => secondRun.filtered = firstRun.filtered

\* simple mode ran twice on a sequence from which it had rejected a fix
C4_Witness ==
    /\ opc = "refiltered"
    /\ outlierCfg.enabled /\ outlierCfg.method = "simple"
    /\ Len(firstRun.outliers) >= 1
    /\ Len(firstRun.filtered) >= 2

\* C18: the first fix of a non-empty input is the first element of the kept
\* list, in physics mode, in simple mode and when the rejector is disabled,
\* and it is not on the rejected list.
C18_FirstFixKept ==
    (opc # "input" /\ gpsPoints # << >>) =>
        /\ firstRun.filtered # << >>
        /\ firstRun.filtered[1] = gpsPoints[1]
        /\ \A k \in 1..Len(firstRun.outliers) : FixOf(firstRun.outliers[k]) # gpsPoints[1]

\* physics mode kept a first fix that reports no speed and rejected a later fix
C18_Witness ==
    /\ opc = "filtered"
    /\ outlierCfg.enabled /\ outlierCfg.method = "physics"
    /\ Len(gpsPoints) >= 2
    /\ gpsPoints[1].speed = 0
    /\ Len(firstRun.outliers) >= 1
    /\ firstRun.filtered[1] = gpsPoints[1]

\* fix i was put on the rejected list / on the kept list
IsRejected(res, fix) == \E k \in 1..Len(res.outliers) : FixOf(res.outliers[k]) = fix
IsKept(res, fix) == \E k \in 1..Len(res.filtered) : res.filtered[k] = fix

\* the decision rule of the claim for fix i (1-based, i >= 2)
RuleRejects(points, i) ==
    LET total == anomalyScores(points, Len(points))[i].totalScore
    IN  \/ total > anomalyThreshold
        \/ (isTemporalOutlier(points, i) /\ total * 2 > anomalyThreshold)

\* C20: in physics mode every fix after the first is rejected exactly when its
\* total score exceeds anomalyThreshold or it is a temporal (triangle) outlier
\* whose total score exceeds half of anomalyThreshold; otherwise it is kept;
\* the last fix is rejected only when its score exceeds anomalyThreshold.
C20_DecisionRule ==
    (opc # "input" /\ outlierCfg.enabled /\ outlierCfg.method = "physics"
       /\ Len(gpsPoints) >= 2) =>
        /\ \A i \in 2..Len(gpsPoints) :
              /\ IsRejected(firstRun, gpsPoints[i]) <=> RuleRejects(gpsPoints, i)
              /\ IsKept(firstRun, gpsPoints[i]) <=> ~RuleRejects(gpsPoints, i)
        /\ IsRejected(firstRun, gpsPoints[Len(gpsPoints)]) =>
              anomalyScores(gpsPoints, Len(gpsPoints))[Len(gpsPoints)].totalScore
                 > anomalyThreshold

\* physics mode kept a temporal outlier whose score is at most half the
\* threshold, and rejected another fix
C20_Witness ==
    /\ opc = "filtered"
    /\ outlierCfg.enabled /\ outlierCfg.method = "physics"
    /\ \E i \in 2..Len(gpsPoints) :
          /\ isTemporalOutlier(gpsPoints, i)
          /\ anomalyScores(gpsPoints, Len(gpsPoints))[i].totalScore * 2 <= anomalyThreshold
          /\ IsKept(firstRun, gpsPoints[i])
    /\ Len(firstRun.outliers) >= 1

\* the running prevImpliedSpeed of the first pass when fix i (1-based, i >= 2)
\* is scored: what calculateAnomalyScore gets as the previous speed
prevSpeedUsed(points, i) == anomalyScores(points, i - 1)[i - 1].impliedSpeed

\* the last fix before fix i that the second pass keeps; the first fix is
\* always kept
lastKeptBefore(points, i) ==
    CHOOSE j \in 1..(i - 1) :
        /\ j = 1 \/ ~RuleRejects(points, j)
        /\ \A k \in (j + 1)..(i - 1) : RuleRejects(points, k)

\* C21: in physics mode the previous speed of the acceleration check of fix i
\* is the implied speed of the previous accepted fix (for the first fix, the
\* speed its score entry carries), never that of a rejected fix
C21_PrevSpeedOfAcceptedFix ==
    (opc # "input" /\ outlierCfg.enabled /\ outlierCfg.method = "physics"
       /\ Len(gpsPoints) >= 2) =>
        \A i \in 2..Len(gpsPoints) :
            gpsPoints[i].timestamp > gpsPoints[i - 1].timestamp =>
                prevSpeedUsed(gpsPoints, i)
                   = anomalyScores(gpsPoints, Len(gpsPoints))[lastKeptBefore(gpsPoints, i)].impliedSpeed

\* C22: in physics mode a fix whose time delta to its predecessor is zero or
\* negative has total score 0 and is kept, triangle-positive or not, and the
\* running implied speed is after it what it was before it
C22_SkippedFixKept ==
    (opc # "input" /\ outlierCfg.enabled /\ outlierCfg.method = "physics"
       /\ Len(gpsPoints) >= 2) =>
        LET scores == anomalyScores(gpsPoints, Len(gpsPoints))
        IN  \A i \in 2..Len(gpsPoints) :
                gpsPoints[i].timestamp <= gpsPoints[i - 1].timestamp =>
                    /\ scores[i].totalScore = 0
                    /\ IsKept(firstRun, gpsPoints[i])
                    /\ ~IsRejected(firstRun, gpsPoints[i])
                    /\ scores[i].impliedSpeed = scores[i - 1].impliedSpeed
                    /\ i < Len(gpsPoints) =>
                          prevSpeedUsed(gpsPoints, i + 1) = prevSpeedUsed(gpsPoints, i)

\* a fix that goes back in time and is triangle-positive was kept, between a
\* fix that left a running speed and a fix that was scored with it
C22_Witness ==
    /\ opc = "filtered"
    /\ Len(gpsPoints) = 3
    /\ gpsPoints[2].timestamp < gpsPoints[1].timestamp
    /\ isTemporalOutlier(gpsPoints, 2)
    /\ IsKept(firstRun, gpsPoints[2])
    /\ gpsPoints[3].timestamp > gpsPoints[2].timestamp
    /\ prevSpeedUsed(gpsPoints, 3) # 0

----------------------------------------------------------------------------
(* Specification of the resamplers: processLap has enriched a lap,         *)
(* downsampled it, added noise and filtered outliers; runAllAlgorithms     *)
(* then runs the linear and the Catmull-Rom resampler on the survivors.    *)

MaxSamples == 6

SampleGap == TicksPerSec \div imuHz
SampleGaps == { 0, SampleGap }

RECURSIVE GapSum(_, _)
GapSum(gaps, i) == IF i = 1 THEN 0 ELSE GapSum(gaps, i - 1) + gaps[i]

\* a lap driven north at 10 m/s, sampled at the gaps given
ReconLap(gaps) ==
    [i \in 1..Len(gaps) |->
        [timestamp |-> GapSum(gaps, i), lat |-> (10 * (i - 1)) \div imuHz, lon |-> 0,
         speed |-> 10 * SCALE, bearing |-> 0, accuracy |-> 5 * SCALE,
         lateral_acc |-> 0, longitudinal_acc |-> 0, yaw_rate |-> 0]]

ReconLaps ==
    UNION { { ReconLap(g) : g \in { h \in [1..n -> SampleGaps] : h[1] = 0 } }
            : n \in 1..MaxSamples }

NoiseDraws == { <<0, 0>>, <<3, -2>>, <<120, 7>> }

ReconInit ==
    /\ fullData \in ReconLaps
    /\ \E cfg \in OutlierConfigs :
         LET fixes == downsampleGPS(fullData)
         IN  \E draws \in [1..Len(fixes) -> NoiseDraws] :
                gpsData = filterGPSOutliers(addGPSNoise(fixes, draws), cfg).filtered
    /\ linear = << >>
    /\ spline = << >>
    /\ rpc = "start"
    /\ OutlierIdle
    /\ EkfIdle
    /\ RestIdle
    /\ EnrichIdle
    /\ MetricsIdle

ApplyLinear ==
    /\ rpc = "start"
    /\ linear' = applyLinearInterpolation(fullData, gpsData)
    /\ rpc' = "linear"
    /\ UNCHANGED <<fullData, gpsData, spline, outlierVars, ekfVars, analysisVars>>

ApplySpline ==
    /\ rpc = "linear"
    /\ spline' = applySplineInterpolation(fullData, gpsData)
    /\ rpc' = "spline"
    /\ UNCHANGED <<fullData, gpsData, linear, outlierVars, ekfVars, analysisVars>>

ReconNext == ApplyLinear \/ ApplySpline

ReconSpec == ReconInit /\ [][ReconNext]_vars

----------------------------------------------------------------------------
(* Properties of the resamplers                                             *)

SamePlace(a, b) == a.lat = b.lat /\ a.lon = b.lon

\* C5 as claimed: at every sample whose timestamp is a fix's timestamp the
\* linear output is that fix's lat and lon
C5_ExactAtEveryFix ==
    (rpc = "linear" /\ Len(gpsData) >= 2) =>
        \A k \in 1..Len(linear) : \A f \in 1..Len(gpsData) :
            linear[k].timestamp = gpsData[f].timestamp => SamePlace(linear[k], gpsData[f])

\* fix f is the last fix of the sequence with its timestamp
LastWithItsTime(points, f) ==
    \A g \in (f + 1)..Len(points) : points[g].timestamp # points[f].timestamp

\* C5 (amended): at every sample whose timestamp is a fix's timestamp the
\* linear output is the lat and lon of the last fix that has this timestamp;
\* it is each fix's own lat and lon when the fix timestamps are distinct.
C5_ExactAtLastFix ==
    (rpc = "linear" /\ Len(gpsData) >= 2) =>
        \A k \in 1..Len(linear) : \A f \in 1..Len(gpsData) :
            (linear[k].timestamp = gpsData[f].timestamp /\ LastWithItsTime(gpsData, f))
                => SamePlace(linear[k], gpsData[f])

\* the linear resampler ran on three fixes at distinct times and places
C5_Witness ==
    /\ rpc = "linear"
    /\ Len(gpsData) >= 3
    /\ \A f \in 1..Len(gpsData) : LastWithItsTime(gpsData, f)
    /\ gpsData[2].lat # gpsData[1].lat /\ gpsData[2].lat # gpsData[3].lat
    /\ \E k \in 1..Len(linear) :
          linear[k].timestamp = gpsData[2].timestamp /\ SamePlace(linear[k], gpsData[2])

\* the four control values of the segment starting at fix idx, on coordinate c
Controls(points, idx, c) ==
    LET ci == controlIndices(Len(points), idx)
    IN  << points[ci.i0][c], points[ci.i1][c], points[ci.i2][c], points[ci.i3][c] >>

KernelAt(q, t) == catmullRom(q[1], q[2], q[3], q[4], t)

LargestControl(q) == Max2(Max2(Abs(q[1]), Abs(q[2])), Max2(Abs(q[3]), Abs(q[4])))

\* C6 as claimed: on every segment, the clamped end segments included, the
\* kernel returns the second control value at parameter 0 and the third at
\* parameter 1
C6_PassesThroughInner ==
    rpc = "spline" =>
        \A idx \in 1..(Len(gpsData) - 1) : \A c \in {"lat", "lon"} :
            LET q == Controls(gpsData, idx, c)
            IN  KernelAt(q, 0) = q[2] /\ KernelAt(q, One) = q[3]

\* no intermediate value of the kernel at these controls is rounded
ExactlyEvaluated(q) == 12 * LargestControl(q) < 2 ^ MantissaBits

\* C6 (amended): on every segment, the clamped end segments included, the
\* kernel returns the second control value p1 at parameter 0; at parameter 1
\* the polynomial is p2 in exact arithmetic, and the returned float is p2 when
\* no intermediate value is rounded and otherwise p2 up to rounding error, no
\* more than 48 units in the last place of the largest control value.
C6_PassesUpToRounding ==
    rpc = "spline" =>
        \A idx \in 1..(Len(gpsData) - 1) : \A c \in {"lat", "lon"} :
            LET q == Controls(gpsData, idx, c)
            IN  /\ KernelAt(q, 0) = q[2]
                /\ ExactlyEvaluated(q) => KernelAt(q, One) = q[3]
                /\ Abs(KernelAt(q, One) - q[3]) <= 48 * Ulp(LargestControl(q))

\* the spline resampler ran on three fixes at three different latitudes, so
\* both end segments are clamped and the kernel is not constant, and on one
\* of them rounding moves the kernel away from the third control value
C6_Witness ==
    /\ rpc = "spline"
    /\ Len(gpsData) = 3
    /\ Cardinality({gpsData[f].lat : f \in 1..3}) = 3
    /\ Len(spline) = Len(fullData)
    /\ \E idx \in 1..2 : KernelAt(Controls(gpsData, idx, "lat"), One) # gpsData[idx + 1].lat
    /\ \E idx \in 1..2 : /\ ExactlyEvaluated(Controls(gpsData, idx, "lon"))
                         /\ gpsData[idx].lon # gpsData[idx + 1].lon

\* C28: for a lap with non-decreasing timestamps and two fixes at least,
\* whenever applyLinearInterpolation or applySplineInterpolation interpolates
\* inside a segment, the two bracketing fixes have strictly increasing
\* timestamps with the sample at or after the first and before the second, and
\* u lies in [0, 1); every sample at or after the last fix's timestamp gets
\* exactly the last fix's position from both.
C28_SegmentsWellFormed ==
    (rpc = "spline" /\ Len(gpsData) >= 2) =>
        LET startIdx == gpsData[1].originalIndex
            last == gpsData[Len(gpsData)]
        IN  /\ Len(linear) = Len(fullData) - startIdx
            /\ Len(spline) = Len(fullData) - startIdx
            /\ \A k \in 1..(Len(fullData) - startIdx) :
                  LET t == fullData[startIdx + k].timestamp
                      idx == findSegment(gpsData, t, 1)
                  IN  /\ idx < Len(gpsData) =>
                            /\ gpsData[idx].timestamp <= t
                            /\ t < gpsData[idx + 1].timestamp
                            /\ paramU(t, gpsData[idx].timestamp, gpsData[idx + 1].timestamp) >= 0
                            /\ paramU(t, gpsData[idx].timestamp, gpsData[idx + 1].timestamp) < One
                      /\ t >= last.timestamp =>
                            /\ idx = Len(gpsData)
                            /\ SamePlace(linear[k], last)
                            /\ SamePlace(spline[k], last)

\* both resamplers have run on a lap with a repeated timestamp whose first two
\* fixes share a timestamp, with a sample inside a segment off its start and
\* a sample after the last fix
C28_Witness ==
    /\ rpc = "spline"
    /\ Len(gpsData) >= 3
    /\ gpsData[1].timestamp = gpsData[2].timestamp
    /\ \E k \in 1..Len(linear) :
          LET idx == findSegment(gpsData, linear[k].timestamp, 1)
          IN  /\ idx < Len(gpsData)
              /\ paramU(linear[k].timestamp, gpsData[idx].timestamp, gpsData[idx + 1].timestamp) > 0
    /\ \E k \in 1..Len(linear) : linear[k].timestamp > gpsData[Len(gpsData)].timestamp

----------------------------------------------------------------------------
(* Specification of runAllAlgorithms: on a lap and its fix sequence the    *)
(* linear and the Catmull-Rom resampler run, then the EKF driver           *)
(* runSensorFusion step by step, then the spline smoothing of its output.  *)

Bearings == { 0, 270 }
\* inertial readings held through a lap: at rest in the body frame, or a hard
\* spin of 360 deg/s under 0.3 G of drive and 0.2 G of side force
ImuReadings == { [yaw_rate |-> 0, lateral_acc |-> 0, longitudinal_acc |-> 0],
                 [yaw_rate |-> 360 * SCALE, lateral_acc |-> -200, longitudinal_acc |-> 300] }
\* 0-based index of the first sample driven fast; before it the car crawls
Launches == { 0, downsampleRatio, 2 * MaxSamples }

RunLap(gaps, bearing, imu, launch) ==
    [i \in 1..Len(gaps) |->
        [timestamp |-> GapSum(gaps, i), lat |-> (10 * (i - 1)) \div imuHz, lon |-> 0,
         speed |-> IF i - 1 >= launch THEN 10 * SCALE ELSE SCALE,
         bearing |-> bearing, accuracy |-> 5 * SCALE,
         lateral_acc |-> imu.lateral_acc, longitudinal_acc |-> imu.longitudinal_acc,
         yaw_rate |-> imu.yaw_rate]]

RunLaps ==
    UNION { { RunLap(g, b, y, l) : g \in { h \in [1..n -> SampleGaps] : h[1] = 0 },
                                   b \in Bearings, y \in ImuReadings, l \in Launches }
            : n \in 1..MaxSamples }

\* the noise of the noisy path; the clean path is the draw <<0, 0>>
RunNoise == { <<0, 0>>, <<3, -2>> }

RunAllInit ==
    /\ fullData \in RunLaps
    /\ LET fixes == downsampleGPS(fullData)
       IN  \E d \in RunNoise :
              gpsData = filterGPSOutliers(addGPSNoise(fixes, [k \in 1..Len(fixes) |-> d]),
                                          [enabled |-> TRUE, method |-> "physics"]).filtered
    /\ linear = << >>
    /\ spline = << >>
    /\ rpc = "start"
    /\ OutlierIdle
    /\ EkfIdle
    /\ RestIdle
    /\ EnrichIdle
    /\ MetricsIdle

\* runSensorFusion up to the loop: find the initialisation fix, initialize
EkfInitialize ==
    /\ rpc = "spline"
    /\ LET initIdx == firstFastFix(gpsData, 0)
       IN  /\ ekf' = initialize(newINSGPSFusion, gpsData[initIdx + 1])
           /\ gpsIdx' = initIdx
           /\ nextGpsTime' = timestampOrInfinity(gpsData, initIdx + 1)
           /\ sampleIdx' = gpsData[initIdx + 1].originalIndex
    /\ trajectory' = << >>
    /\ lastStep' = "initialize"
    /\ rpc' = "ekf"
    /\ UNCHANGED <<fullData, gpsData, linear, spline, ekfRaw, ekfSmooth, outlierVars, analysisVars>>

\* loop body, first statement: ekf.predict(imu, dt)
EkfPredict ==
    /\ rpc = "ekf"
    /\ lastStep \in {"initialize", "emit"}
    /\ sampleIdx < Len(fullData)
    /\ ekf' = predict(ekf, fullData[sampleIdx + 1], SCALE \div imuHz)
    /\ lastStep' = "predict"
    /\ UNCHANGED <<gpsIdx, nextGpsTime, sampleIdx, trajectory, ekfRaw, ekfSmooth,
                   reconVars, outlierVars, analysisVars>>

\* variant: the clock is not looked at, a fix is due whenever one remains
fixDueNoClock == gpsIdx + 1 < Len(gpsData)

\* the test of the loop body: a new fix is due
fixDue ==
    /\ nextGpsTime.finite
    /\ fullData[sampleIdx + 1].timestamp >= nextGpsTime.at
    /\ gpsIdx + 1 < Len(gpsData)

EkfUpdate ==
    /\ rpc = "ekf"
    /\ lastStep = "predict"
    /\ fixDue
    /\ gpsIdx' = gpsIdx + 1
    /\ ekf' = update(ekf, gpsData[gpsIdx + 2])
    /\ nextGpsTime' = timestampOrInfinity(gpsData, gpsIdx + 2)
    /\ lastStep' = "update"
    /\ UNCHANGED <<sampleIdx, trajectory, ekfRaw, ekfSmooth, reconVars, outlierVars, analysisVars>>

EkfNoUpdate ==
    /\ rpc = "ekf"
    /\ lastStep = "predict"
    /\ ~fixDue
    /\ lastStep' = "skip"
    /\ UNCHANGED <<ekf, gpsIdx, nextGpsTime, sampleIdx, trajectory, ekfRaw, ekfSmooth,
                   reconVars, outlierVars, analysisVars>>

\* end of the loop body: save the trajectory point, next sample
EkfEmit ==
    /\ rpc = "ekf"
    /\ lastStep \in {"update", "skip"}
    /\ LET pos == getPosition(ekf)
       IN  trajectory' = IF pos # NULL
                         THEN Append(trajectory,
                                     PositionalFix(fullData[sampleIdx + 1].timestamp,
                                                   pos[1].lat, pos[1].lon))
                         ELSE trajectory
    /\ sampleIdx' = sampleIdx + 1
    /\ lastStep' = "emit"
    /\ UNCHANGED <<ekf, gpsIdx, nextGpsTime, ekfRaw, ekfSmooth, reconVars, outlierVars, analysisVars>>

EkfReturn ==
    /\ rpc = "ekf"
    /\ lastStep \in {"initialize", "emit"}
    /\ sampleIdx >= Len(fullData)
    /\ ekfRaw' = trajectory
    /\ rpc' = "ekfRaw"
    /\ UNCHANGED <<fullData, gpsData, linear, spline, ekf, gpsIdx, nextGpsTime, sampleIdx,
                   trajectory, lastStep, ekfSmooth, outlierVars, analysisVars>>

SmoothEkf ==
    /\ rpc = "ekfRaw"
    /\ ekfSmooth' = smoothTrajectoryWithSpline(ekfRaw, imuHz)
    /\ rpc' = "ekfSmooth"
    /\ UNCHANGED <<fullData, gpsData, linear, spline, ekf, gpsIdx, nextGpsTime, sampleIdx,
                   trajectory, lastStep, ekfRaw, outlierVars, analysisVars>>

RunAllNext ==
    \/ ApplyLinear
    \/ ApplySpline
    \/ EkfInitialize
    \/ EkfPredict
    \/ EkfUpdate
    \/ EkfNoUpdate
    \/ EkfEmit
    \/ EkfReturn
    \/ SmoothEkf

RunAllSpec == RunAllInit /\ [][RunAllNext]_vars

----------------------------------------------------------------------------
(* Properties of runAllAlgorithms and of the EKF driver                     *)

\* 0-based index into fullData of the fix the EKF is initialised from
initOriginalIndex == gpsData[firstFastFix(gpsData, 0) + 1].originalIndex

\* C2: runSensorFusion returns one fix per sample from the initialisation
\* fix's original index to the end of the stream, the k-th with the timestamp
\* of the k-th sample from that index.
C2_OnePerSample ==
    rpc \in {"ekfRaw", "ekfSmooth"} =>
        /\ Len(ekfRaw) = Len(fullData) - initOriginalIndex
        /\ \A k \in 1..Len(ekfRaw) :
              ekfRaw[k].timestamp = fullData[initOriginalIndex + k].timestamp

\* the driver returned after starting later than the first sample
C2_Witness ==
    /\ rpc = "ekfRaw"
    /\ initOriginalIndex > 0
    /\ Len(ekfRaw) >= 2
    /\ Len(ekfRaw) < Len(fullData)

StrictlyIncreasing(out) ==
    \A k \in 1..(Len(out) - 1) : out[k].timestamp < out[k + 1].timestamp

NonDecreasing(out) ==
    \A k \in 1..(Len(out) - 1) : out[k].timestamp <= out[k + 1].timestamp

C10_PsiHalfOpen ==
    lastStep \in {"initialize", "predict", "update"} =>
        (-PI < ekf.x[5] /\ ekf.x[5] <= PI)

Angles == { -TwoPI - 1, -TwoPI, -PI - 1, -PI, -PI + 1, 0, PI - 1, PI, PI + 1, TwoPI, 3 * PI }

\* C10 (amended): after every predict and update the heading is in the closed
\* interval [-pi, pi], the value -pi included, and normalizeAngle maps every
\* angle into [-pi, pi]; initialize stores bearing * pi / 180 as it is, a value
\* in [0, 2 pi), and the heading stays there until the first predict.
C10_PsiClosed ==
    /\ \A a \in Angles : -PI <= normalizeAngle(a) /\ normalizeAngle(a) <= PI
    /\ ekf.initialized =>
          IF sampleIdx = initOriginalIndex /\ lastStep = "initialize"
          THEN 0 <= ekf.x[5] /\ ekf.x[5] < TwoPI
          ELSE -PI <= ekf.x[5] /\ ekf.x[5] <= PI

\* a predict step has left the heading at -pi exactly
C10_Witness ==
    /\ lastStep = "predict"
    /\ ekf.initialized
    /\ ekf.x[5] = -PI

\* C23: the filter is initialised from the first fix of the sequence whose
\* speed exceeds min_speed_for_heading, with its position as the reference and
\* its bearing as the heading; no fix before it is fast, and the fix it is
\* initialised from is
C23_InitFromFirstFastFix ==
    (rpc = "ekf" /\ lastStep = "initialize") =>
        LET fix == gpsData[gpsIdx + 1]
        IN  /\ ekf.initialized
            /\ ekf.lat0 = Some(fix.lat)
            /\ ekf.lon0 = Some(fix.lon)
            /\ \A k \in 1..gpsIdx : gpsData[k].speed <= min_speed_for_heading
            /\ fix.speed > min_speed_for_heading

\* C24: in the loop of runSensorFusion predict comes first at every sample; the
\* next unused fix is applied exactly when fixes remain and the timestamp of
\* the sample has reached the timestamp of that fix; a sample takes at most
\* one fix, the fixes are taken in order, none is skipped, and none is applied
\* at a sample that is earlier than the fix
C24_PredictThenUpdate ==
    [][ rpc = "ekf" =>
          LET sample == fullData[sampleIdx + 1]
              reached == /\ gpsIdx + 1 < Len(gpsData)
                         /\ sample.timestamp >= gpsData[gpsIdx + 2].timestamp
          IN  /\ lastStep' = "predict" =>
                    /\ lastStep \in {"initialize", "emit"}
                    /\ ekf' = predict(ekf, sample, SCALE \div imuHz)
              /\ lastStep = "predict" =>
                    /\ lastStep' = "update" <=> reached
                    /\ lastStep' = "skip" <=> ~reached
              /\ lastStep' = "update" =>
                    /\ lastStep = "predict"
                    /\ gpsIdx' = gpsIdx + 1
                    /\ ekf' = update(ekf, gpsData[gpsIdx + 2])
                    /\ sample.timestamp >= gpsData[gpsIdx + 2].timestamp
              /\ lastStep' # "update" => gpsIdx' = gpsIdx
              /\ lastStep \in {"update", "skip"} =>
                    /\ lastStep' = "emit"
                    /\ sampleIdx' = sampleIdx + 1 ]_vars

\* a fix has been applied at the first sample that reached its timestamp,
\* after a sample that had not
C24_Witness ==
    /\ rpc = "ekf"
    /\ lastStep = "update"
    /\ gpsIdx = firstFastFix(gpsData, 0) + 1
    /\ sampleIdx > gpsData[firstFastFix(gpsData, 0) + 1].originalIndex
    /\ fullData[sampleIdx + 1].timestamp >= gpsData[gpsIdx + 1].timestamp
    /\ fullData[sampleIdx].timestamp < gpsData[gpsIdx + 1].timestamp

\* the sample the loop is at has the timestamp of the sample before it, which
\* the loop has processed too
atDuplicateSample ==
    /\ rpc = "ekf"
    /\ sampleIdx >= 1
    /\ sampleIdx < Len(fullData)
    /\ sampleIdx > initOriginalIndex
    /\ fullData[sampleIdx + 1].timestamp = fullData[sampleIdx].timestamp

\* C12: when the sample at hand has the timestamp of the preceding sample and
\* no fix update is due, the filter after predict stands where the output of
\* the preceding sample stands.
C12_DuplicateIsNoOp ==
    (atDuplicateSample /\ lastStep = "skip" /\ trajectory # << >>) =>
        LET pos == getPosition(ekf)
            before == trajectory[Len(trajectory)]
        IN  pos # NULL /\ pos[1].lat = before.lat /\ pos[1].lon = before.lon

----------------------------------------------------------------------------
(* Specification of the filter object: an INSGPSFusion is constructed and  *)
(* its methods are called in any order, with any argument, under the       *)
(* default CONFIG.ekf or under a configuration that trusts the fixes       *)
(* fully.                                                                    *)

MaxCalls == 5

\* a caller's CONFIG.ekf that models a noise-free receiver
ExactFixesEkf == [DefaultEkf EXCEPT !.gps_pos_noise = 0]

ApiConfigs == { DefaultEkf, ExactFixesEkf }

\* fixes 3 m east of and 4 m north of the origin; accuracy 0 is a fix without
\* an accuracy reading
ApiFixes ==
    { [timestamp |-> 0, lat |-> p[1], lon |-> p[2], speed |-> 10 * SCALE, bearing |-> 90,
       accuracy |-> a, lateral_acc |-> 0, longitudinal_acc |-> 0, yaw_rate |-> 0,
       originalIndex |-> 0] : p \in { <<0, 3>>, <<4, 0>> }, a \in { 0 } }

\* the steps predict is called with: none, or one sample period
ApiSteps == { 0, SCALE \div imuHz }

ApiInit ==
    /\ configEkf \in ApiConfigs
    /\ ApiIdle
    /\ RunnerIdle
    /\ CsvIdle
    /\ HeapIdle
    /\ MoreIdle
    /\ OutlierIdle
    /\ ReconIdle
    /\ EkfIdle
    /\ EnrichIdle
    /\ MetricsIdle

ApiUnchanged ==
    UNCHANGED <<gpsIdx, nextGpsTime, sampleIdx, trajectory, ekfRaw, ekfSmooth,
                outlierVars, reconVars, enrichVars, metricsVars, configVars, runnerVars,
                csvVars, heapVars, moreVars>>

ApiInitialize ==
    /\ calls < MaxCalls
    /\ \E gpsPoint \in ApiFixes : ekf' = initialize(ekf, gpsPoint)
    /\ lastStep' = "initialize"
    /\ calls' = calls + 1
    /\ UNCHANGED returned
    /\ ApiUnchanged

ApiPredict ==
    /\ calls < MaxCalls
    /\ \E imu \in ImuReadings, dt \in ApiSteps : ekf' = predict(ekf, imu, dt)
    /\ lastStep' = "predict"
    /\ calls' = calls + 1
    /\ UNCHANGED returned
    /\ ApiUnchanged

ApiUpdate ==
    /\ calls < MaxCalls
    /\ \E gpsPoint \in ApiFixes : ekf' = update(ekf, gpsPoint)
    /\ lastStep' = "update"
    /\ calls' = calls + 1
    /\ UNCHANGED returned
    /\ ApiUnchanged

ApiGetPosition ==
    /\ calls < MaxCalls
    /\ returned' = getPosition(ekf)
    /\ lastStep' = "getPosition"
    /\ calls' = calls + 1
    /\ UNCHANGED ekf
    /\ ApiUnchanged

ApiNext == ApiInitialize \/ ApiPredict \/ ApiUpdate \/ ApiGetPosition

ApiSpec == ApiInit /\ [][ApiNext]_vars

\* C19: an uninitialised filter is left as it is by predict and update and
\* gives null from getPosition; initialize leaves the filter initialised; an
\* initialised filter stays initialised and keeps lat0 and lon0 through every
\* predict, update and getPosition call.
C19_TwoStates ==
    [][ /\ (lastStep' = "initialize" /\ calls' = calls + 1) => ekf'.initialized
        /\ (lastStep' \in {"predict", "update", "getPosition"} /\ calls' = calls + 1) =>
              /\ ~ekf.initialized =>
                    /\ ekf' = ekf
                    /\ lastStep' = "getPosition" => returned' = NULL
              /\ ekf.initialized =>
                    /\ ekf'.initialized
                    /\ ekf'.lat0 = ekf.lat0
                    /\ ekf'.lon0 = ekf.lon0 ]_vars

\* after MaxCalls calls a filter that was initialised, moved by predict and
\* corrected by update stands away from its origin
C19_Witness ==
    /\ calls = MaxCalls
    /\ lastStep = "update"
    /\ ekf.initialized
    /\ ekf.x[1] # 0
    /\ ekf.P # initialize(newINSGPSFusion, [lat |-> 0, lon |-> 0, bearing |-> 0, speed |-> 0]).P

\* S = H * P * H' + R of update, for the fix given
innovationCovariance(self, gpsPoint) ==
    LET H == << <<SCALE, 0, 0, 0, 0, 0, 0>>,
                <<0, SCALE, 0, 0, 0, 0, 0>> >>
        r == IF gpsPoint.accuracy # 0 THEN gpsPoint.accuracy ELSE gps_pos_noise
        R == << <<Mul(r, r), 0>>, <<0, Mul(r, r)>> >>
    IN  matadd(matmul(H, matmul(self.P, transpose(H))), R)

\* inverse(M) gives up on M: a pivot vanishes
isSingular(M) == gaussJordan(M, eye(Len(M)), 1) = << >>

----------------------------------------------------------------------------
(* Lap enrichment (analysis/distance.js)                                    *)

\* distances are whole metres; lapPosition is a fraction in units of 1/SCALE

\* cumulative after the i-th point (1-based) of the map callback
RECURSIVE cumulativeDistance(_, _)
cumulativeDistance(pts, i) ==
    IF i = 1 THEN 0
    ELSE cumulativeDistance(pts, i - 1)
         + haversineDistance(pts[i - 1].lat, pts[i - 1].lon, pts[i].lat, pts[i].lon)

addDistanceToPoints(pts) ==
    IF Len(pts) = 0 THEN pts
    ELSE [i \in 1..Len(pts) |-> ("distance" :> cumulativeDistance(pts, i)) @@ pts[i]]

\* variant: the zero-length lap is not told apart, and 0 / 0 is taken as 1
addLapPositionFull(pts) ==
    IF Len(pts) = 0 THEN pts
    ELSE LET totalDist == pts[Len(pts)].distance
         IN  [i \in 1..Len(pts) |->
                 ("lapPosition" :> IF totalDist = 0 THEN SCALE
                                   ELSE (pts[i].distance * SCALE) \div totalDist) @@ pts[i]]

addLapPosition(pts) ==
    IF Len(pts) = 0 THEN pts
    ELSE LET totalDist == pts[Len(pts)].distance
         IN  IF totalDist = 0
             THEN [i \in 1..Len(pts) |-> ("lapPosition" :> 0) @@ pts[i]]
             ELSE [i \in 1..Len(pts) |->
                     ("lapPosition" :> (pts[i].distance * SCALE) \div totalDist) @@ pts[i]]

addLapTime(pts) ==
    IF Len(pts) = 0 THEN pts
    ELSE LET t0 == pts[1].timestamp
         IN  [i \in 1..Len(pts) |-> ("lapTime" :> pts[i].timestamp - t0) @@ pts[i]]

MaxLapPoints == 4
LapPlaces == { <<0, 0>>, <<3, 4>>, <<30, 40>> }
LapStarts == { 0, 7 * TicksPerSec }

RawLap(places, start) ==
    [i \in 1..Len(places) |->
        [timestamp |-> start + (i - 1) * (TicksPerSec \div imuHz),
         lat |-> places[i][1], lon |-> places[i][2], speed |-> 10 * SCALE]]

RawLaps ==
    UNION { { RawLap(pl, st) : pl \in [1..n -> LapPlaces], st \in LapStarts }
            : n \in 0..MaxLapPoints }

EnrichInit ==
    /\ rawPoints \in RawLaps
    /\ enhanced = << >>
    /\ apc = "raw"
    /\ OutlierIdle
    /\ ReconIdle
    /\ EkfIdle
    /\ RestIdle
    /\ MetricsIdle

\* enhanceTelemetryPoints, the empty lap
EnhanceEmpty ==
    /\ apc = "raw"
    /\ Len(rawPoints) = 0
    /\ enhanced' = [points |-> << >>, totalDistance |-> 0, duration |-> 0]
    /\ apc' = "done"
    /\ UNCHANGED <<rawPoints, outlierVars, reconVars, ekfVars, metricsVars, restVars>>

EnhanceDistance ==
    /\ apc = "raw"
    /\ Len(rawPoints) # 0
    /\ enhanced' = addDistanceToPoints(rawPoints)
    /\ apc' = "distance"
    /\ UNCHANGED <<rawPoints, outlierVars, reconVars, ekfVars, metricsVars, restVars>>

EnhanceLapPosition ==
    /\ apc = "distance"
    /\ enhanced' = addLapPosition(enhanced)
    /\ apc' = "position"
    /\ UNCHANGED <<rawPoints, outlierVars, reconVars, ekfVars, metricsVars, restVars>>

EnhanceLapTime ==
    /\ apc = "position"
    /\ enhanced' = addLapTime(enhanced)
    /\ apc' = "time"
    /\ UNCHANGED <<rawPoints, outlierVars, reconVars, ekfVars, metricsVars, restVars>>

EnhanceReturn ==
    /\ apc = "time"
    /\ enhanced' = [points |-> enhanced,
                    totalDistance |-> enhanced[Len(enhanced)].distance,
                    duration |-> enhanced[Len(enhanced)].lapTime]
    /\ apc' = "done"
    /\ UNCHANGED <<rawPoints, outlierVars, reconVars, ekfVars, metricsVars, restVars>>

EnrichNext ==
    \/ EnhanceEmpty
    \/ EnhanceDistance
    \/ EnhanceLapPosition
    \/ EnhanceLapTime
    \/ EnhanceReturn

EnrichSpec == EnrichInit /\ [][EnrichNext]_vars

\* the enriched points of a returned non-empty lap
Enriched == enhanced.points

EnrichedLap == apc = "done" /\ Len(rawPoints) >= 1

\* C7 as claimed: in every non-empty lap the first distance and the first
\* lap position are 0, the last lap position is 1, every lap position is in
\* [0, 1] and the lap positions never decrease; single-sample laps and laps
\* of total distance 0 included.
C7_LapPositionEndsAtOne ==
    EnrichedLap =>
        /\ Enriched[1].distance = 0
        /\ Enriched[1].lapPosition = 0
        /\ Enriched[Len(Enriched)].lapPosition = SCALE
        /\ \A i \in 1..Len(Enriched) :
              0 <= Enriched[i].lapPosition /\ Enriched[i].lapPosition <= SCALE
        /\ \A i \in 1..(Len(Enriched) - 1) :
              Enriched[i].lapPosition <= Enriched[i + 1].lapPosition

\* C7 (amended): in every non-empty lap the first distance and the first lap
\* position are 0, every lap position is in [0, 1] and the lap positions never
\* decrease; the last lap position is 1 when the lap's total distance is
\* positive, and in a lap of total distance 0 (a single sample, a vehicle that
\* never moves) every lap position is 0, the last included.
C7_LapPosition ==
    EnrichedLap =>
        /\ Enriched[1].distance = 0
        /\ Enriched[1].lapPosition = 0
        /\ \A i \in 1..Len(Enriched) :
              0 <= Enriched[i].lapPosition /\ Enriched[i].lapPosition <= SCALE
        /\ \A i \in 1..(Len(Enriched) - 1) :
              Enriched[i].lapPosition <= Enriched[i + 1].lapPosition
        /\ IF enhanced.totalDistance > 0
           THEN Enriched[Len(Enriched)].lapPosition = SCALE
           ELSE \A i \in 1..Len(Enriched) : Enriched[i].lapPosition = 0

\* a lap of several samples in which the vehicle never moves has been enriched
C7_Witness ==
    /\ EnrichedLap
    /\ Len(Enriched) >= 2
    /\ enhanced.totalDistance = 0
    /\ Enriched[Len(Enriched)].lapPosition = 0

----------------------------------------------------------------------------
(* Accuracy metrics (analysis/metrics.js)                                   *)

\* the statistics are floats in units of 1 / One metres (square metres)
toFloat(metres) == RoundToFloat(metres * One, 1)
fdivCount(a, n) == RoundToFloat(a, n)

\* Math.sqrt: the float nearest to the square root
fsqrt(a) ==
    LET s == ISqrt(a * One)
        g == Ulp(s)
        k == s \div g
        mid2 == ((2 * k + 1) * g) * ((2 * k + 1) * g)
    IN  IF 4 * a * One < mid2 THEN k * g
        ELSE IF 4 * a * One > mid2 THEN (k + 1) * g
        ELSE IF k % 2 = 0 THEN k * g ELSE (k + 1) * g

\* timestamp.toFixed(3): the timestamp in milliseconds, rounded to nearest
toFixed3(timestamp) == (timestamp * 1000 + TicksPerSec \div 2) \div TicksPerSec

\* estMap.get(key) after the loop of estMap.set: the last estimate under the key
RECURSIVE estMapGet(_, _, _)
estMapGet(est, key, n) ==
    IF n = 0 THEN NULL
    ELSE IF toFixed3(est[n].timestamp) = key THEN Some(est[n])
    ELSE estMapGet(est, key, n - 1)

NoMatchMetrics ==
    [mse |-> Infinity, rmse |-> Infinity, mae |-> Infinity, maxError |-> Infinity, count |-> 0]

\* the running sums after the first n ground-truth points
RECURSIVE accumulate(_, _, _)
accumulate(gts, est, n) ==
    IF n = 0 THEN [sumSquaredError |-> 0, sumAbsError |-> 0, maxError |-> 0, count |-> 0]
    ELSE LET acc == accumulate(gts, est, n - 1)
             hit == estMapGet(est, toFixed3(gts[n].timestamp), Len(est))
         IN  IF hit = NULL THEN acc
             ELSE LET error == toFloat(haversineDistance(gts[n].lat, gts[n].lon,
                                                         hit[1].lat, hit[1].lon))
                  IN  [sumSquaredError |-> fadd(acc.sumSquaredError, fmul(error, error)),
                       sumAbsError |-> fadd(acc.sumAbsError, error),
                       maxError |-> Max2(acc.maxError, error),
                       count |-> acc.count + 1]

\* variant: the square root is left out
rootOfMeanNoSqrt(mse) == mse

rootOfMean(mse) == fsqrt(mse)

\* variant: a run without a match reports zeros
calculateAccuracyMetricsZeros(gts, est) ==
    IF Len(est) = 0 THEN NoMatchMetrics
    ELSE LET acc == accumulate(gts, est, Len(gts))
         IN  IF acc.count = 0
             THEN [mse |-> Finite(0), rmse |-> Finite(0), mae |-> Finite(0),
                   maxError |-> Finite(0), count |-> 0]
             ELSE LET mse == fdivCount(acc.sumSquaredError, acc.count)
                  IN  [mse |-> Finite(mse),
                       rmse |-> Finite(rootOfMean(mse)),
                       mae |-> Finite(fdivCount(acc.sumAbsError, acc.count)),
                       maxError |-> Finite(acc.maxError),
                       count |-> acc.count]

calculateAccuracyMetrics(gts, est) ==
    IF Len(est) = 0 THEN NoMatchMetrics
    ELSE LET acc == accumulate(gts, est, Len(gts))
         IN  IF acc.count = 0 THEN NoMatchMetrics
             ELSE LET mse == fdivCount(acc.sumSquaredError, acc.count)
                  IN  [mse |-> Finite(mse),
                       rmse |-> Finite(rootOfMean(mse)),
                       mae |-> Finite(fdivCount(acc.sumAbsError, acc.count)),
                       maxError |-> Finite(acc.maxError),
                       count |-> acc.count]

MaxTruth == 3
MaxEstimates == 3

\* the reference trajectory: one point a second, at the origin
TruthOf(n) == [i \in 1..n |-> [timestamp |-> (i - 1) * TicksPerSec, lat |-> 0, lon |-> 0]]

\* estimate timestamps: on a reference timestamp, within half a millisecond
\* of one, half a millisecond and more away from every one
EstimateTimes == { 0, 2, TicksPerSec, 2 * TicksPerSec + 1 }
EstimatePlaces == { <<0, 0>>, <<0, 27>>, <<0, 59>> }

EstimatePoints ==
    { [timestamp |-> t, lat |-> pl[1], lon |-> pl[2]] : t \in EstimateTimes, pl \in EstimatePlaces }

Estimates == UNION { [1..n -> EstimatePoints] : n \in 0..MaxEstimates }

MetricsInit ==
    /\ groundTruth \in { TruthOf(n) : n \in 0..MaxTruth }
    /\ estimated \in Estimates
    /\ metrics = NoMetrics
    /\ mpc = "input"
    /\ OutlierIdle
    /\ ReconIdle
    /\ EkfIdle
    /\ RestIdle
    /\ EnrichIdle

CalculateMetrics ==
    /\ mpc = "input"
    /\ metrics' = calculateAccuracyMetrics(groundTruth, estimated)
    /\ mpc' = "done"
    /\ UNCHANGED <<groundTruth, estimated, outlierVars, reconVars, ekfVars, enrichVars, restVars>>

MetricsNext == CalculateMetrics

MetricsSpec == MetricsInit /\ [][MetricsNext]_vars

\* some ground-truth timestamp and some estimate timestamp agree at three decimals
SomeMatch ==
    \E i \in 1..Len(groundTruth), j \in 1..Len(estimated) :
        toFixed3(groundTruth[i].timestamp) = toFixed3(estimated[j].timestamp)

\* C8 as claimed: with at least one match, 0 <= mae <= rmse <= maxError
C8_Chain ==
    (mpc = "done" /\ metrics.count >= 1) =>
        /\ 0 <= metrics.mae.at
        /\ metrics.mae.at <= metrics.rmse.at
        /\ metrics.rmse.at <= metrics.maxError.at

\* a is at most b, or above it by no more than k spacings of the floats at b
WithinUlps(a, b, k) == a <= b + k * Ulp(b)

\* C8 (amended): with at least one match, mae, rmse and maxError are >= 0 and
\* with exactly one match they are equal; 0 <= mae <= rmse <= maxError holds
\* of the exact means, and the returned floating-point values can break either
\* inequality by rounding error (three equal errors can give mae > rmse), by
\* no more than 3 * count + 3 units in the last place.
C8_ChainUpToRounding ==
    (mpc = "done" /\ metrics.count >= 1) =>
        /\ 0 <= metrics.mae.at /\ 0 <= metrics.rmse.at /\ 0 <= metrics.maxError.at
        /\ metrics.count = 1 =>
              (metrics.mae.at = metrics.rmse.at /\ metrics.rmse.at = metrics.maxError.at)
        /\ WithinUlps(metrics.mae.at, metrics.rmse.at, 3 * metrics.count + 3)
        /\ WithinUlps(metrics.rmse.at, metrics.maxError.at, 3 * metrics.count + 3)

\* several matches, and rounding has put mae above rmse
C8_Witness ==
    /\ mpc = "done"
    /\ metrics.count >= 2
    /\ metrics.mae.at > metrics.rmse.at

\* C9: when no ground-truth timestamp agrees with an estimate timestamp at
\* three decimals (the empty estimate included) calculateAccuracyMetrics
\* returns rmse, mae and maxError +Infinity and count 0.
C9_NoMatchGivesInfinity ==
    (mpc = "done" /\ ~SomeMatch) =>
        /\ metrics.rmse = Infinity
        /\ metrics.mae = Infinity
        /\ metrics.maxError = Infinity
        /\ metrics.count = 0

\* both trajectories have points, the nearest timestamps are half a
\* millisecond apart, and nothing matched
C9_Witness ==
    /\ mpc = "done"
    /\ Len(groundTruth) >= 1
    /\ \E j \in 1..Len(estimated) : estimated[j].timestamp = 2
    /\ ~SomeMatch
    /\ metrics.count = 0
    /\ metrics.rmse = Infinity

----------------------------------------------------------------------------
(* Experiment runner (runner.js) and browser pipeline (browser/process.js) *)

\* Object.assign(target, source): the fields of source overwrite target's
objectAssign(target, source) == source @@ target

\* the grid of runEkfExperiments
experiments ==
    << [label |-> "Default", sigma_accel |-> 500, sigma_gyro |-> 20, sigma_bias |-> 1, gps_pos_noise |-> 5000],
       [label |-> "Trust GPS more", sigma_accel |-> 2000, sigma_gyro |-> 100, sigma_bias |-> 1, gps_pos_noise |-> 2000],
       [label |-> "Trust IMU more", sigma_accel |-> 100, sigma_gyro |-> 10, sigma_bias |-> 10, gps_pos_noise |-> 15000],
       [label |-> "High bias adapt", sigma_accel |-> 500, sigma_gyro |-> 20, sigma_bias |-> 100, gps_pos_noise |-> 5000],
       [label |-> "Very high GPS trust", sigma_accel |-> 5000, sigma_gyro |-> 200, sigma_bias |-> 1, gps_pos_noise |-> 1000],
       [label |-> "Balanced v2", sigma_accel |-> 1000, sigma_gyro |-> 50, sigma_bias |-> 10, gps_pos_noise |-> 3000],
       [label |-> "Low accel noise", sigma_accel |-> 200, sigma_gyro |-> 20, sigma_bias |-> 10, gps_pos_noise |-> 5000],
       [label |-> "High accel noise", sigma_accel |-> 3000, sigma_gyro |-> 50, sigma_bias |-> 1, gps_pos_noise |-> 3000] >>

\* the four parameters of a grid entry or of a result
ekfParams(exp) ==
    [sigma_accel |-> exp.sigma_accel, sigma_gyro |-> exp.sigma_gyro,
     sigma_bias |-> exp.sigma_bias, gps_pos_noise |-> exp.gps_pos_noise]

\* variant: the comparator is turned round, the largest RMSE comes first
compareRmseDescending(a, b) ==
    IF a.rmse.finite /\ b.rmse.finite THEN b.rmse.at - a.rmse.at
    ELSE IF a.rmse.finite THEN 1
    ELSE IF b.rmse.finite THEN -1
    ELSE 0

\* the sign of a.rmse - b.rmse; Infinity - Infinity is NaN, which sort takes for 0
compareRmse(a, b) ==
    IF a.rmse.finite /\ b.rmse.finite THEN a.rmse.at - b.rmse.at
    ELSE IF a.rmse.finite THEN -1
    ELSE IF b.rmse.finite THEN 1
    ELSE 0

\* r put into the sorted list behind every element that is not larger
insertByRmse(sorted, r) ==
    LET k == Cardinality({ i \in 1..Len(sorted) : compareRmse(sorted[i], r) <= 0 })
    IN  SubSeq(sorted, 1, k) \o << r >> \o SubSeq(sorted, k + 1, Len(sorted))

\* results.sort((a, b) => a.rmse - b.rmse), a stable sort, of rs[1..n]
RECURSIVE sortByRmse(_, _)
sortByRmse(rs, n) ==
    IF n = 0 THEN << >> ELSE insertByRmse(sortByRmse(rs, n - 1), rs[n])

\* enhanceTelemetryPoints as one call
enhanceTelemetryPoints(pts) ==
    IF Len(pts) = 0 THEN [points |-> << >>, totalDistance |-> 0, duration |-> 0]
    ELSE LET e == addLapTime(addLapPosition(addDistanceToPoints(pts)))
         IN  [points |-> e, totalDistance |-> e[Len(e)].distance, duration |-> e[Len(e)].lapTime]

RECURSIVE ascending(_)
ascending(S) ==
    IF S = {} THEN << >>
    ELSE LET m == CHOOSE x \in S : \A y \in S : x <= y
         IN  << m >> \o ascending(S \ {m})

\* variant: the filter lets lap number 0 through
lapsOfFromZero(data) == ascending({ n \in { data[i].lap : i \in 1..Len(data) } : n >= 0 })

\* [...new Set(fullDataRaw.map(p => p.lap))].filter(n => n > 0).sort((a, b) => a - b)
lapsOf(data) == ascending({ n \in { data[i].lap : i \in 1..Len(data) } : n > 0 })

\* fullDataRaw.filter(p => p.lap === lapNumber)
lapFilter(data, lapNumber) ==
    LET RECURSIVE from(_)
        from(i) == IF i > Len(data) THEN << >>
                   ELSE IF data[i].lap = lapNumber THEN << data[i] >> \o from(i + 1)
                   ELSE from(i + 1)
    IN  from(1)

\* variant: the timestamps are shifted by the start of the whole recording
normalizeTimestampsFromFile(data, lapNumber) ==
    LET t0 == data[1].timestamp
    IN  [i \in 1..Len(data) |->
            IF data[i].lap = lapNumber THEN [data[i] EXCEPT !.timestamp = @ - t0]
            ELSE data[i]]

\* lapDataRaw.forEach(p => p.timestamp -= t0): the samples of the lap are
\* objects of fullDataRaw, which is what changes
normalizeTimestamps(data, lapNumber) ==
    LET t0 == lapFilter(data, lapNumber)[1].timestamp
    IN  [i \in 1..Len(data) |->
            IF data[i].lap = lapNumber THEN [data[i] EXCEPT !.timestamp = @ - t0]
            ELSE data[i]]

\* CONFIG.outlierDetection as config.js sets it
DefaultOutlierDetection == [enabled |-> TRUE, method |-> "physics"]

\* processLap up to the two runAllAlgorithms calls, on the normalised samples
\* and with the draws addGPSNoise takes; the chart data are left out
prepareLap(data, lapNumber, draws) ==
    LET enh == enhanceTelemetryPoints(lapFilter(data, lapNumber))
        gpsDownsampled == downsampleGPS(enh.points)
        cleanOutlierResult == filterGPSOutliers(gpsDownsampled, DefaultOutlierDetection)
        noisyGPSRaw == addGPSNoise(gpsDownsampled, draws)
        noisyOutlierResult == filterGPSOutliers(noisyGPSRaw, DefaultOutlierDetection)
    IN  [lap |-> lapNumber,
         groundTruth |-> enh.points,
         totalDistance |-> enh.totalDistance,
         duration |-> enh.duration,
         cleanGPS |-> cleanOutlierResult.filtered,
         noisyGPS |-> noisyOutlierResult.filtered,
         outliers |-> [clean |-> Len(cleanOutlierResult.outliers),
                       noisy |-> Len(noisyOutlierResult.outliers),
                       total |-> Len(gpsDownsampled)]]

\* number of fixes downsampleGPS makes of the lap
fixCount(data, lapNumber) ==
    (Len(lapFilter(data, lapNumber)) + downsampleRatio - 1) \div downsampleRatio

(* Specification of processCSV: the parsed samples of a file go through     *)
(* the lap search, processLap for every lap and the detailed analysis of    *)
(* the first lap; runAllAlgorithms runs step by step, with every trial of   *)
(* the grid saving, changing and restoring CONFIG.ekf.                      *)

MaxLapSamples == 3

\* the samples parseCSVString makes of the rows of one lap, first at 'start'
CsvLap(lapNumber, n, start, imu, launch) ==
    [i \in 1..n |->
        [timestamp |-> start + (i - 1) * (TicksPerSec \div imuHz),
         lat |-> (10 * (i - 1)) \div imuHz, lon |-> 0,
         speed |-> IF i - 1 >= launch THEN 10 * SCALE ELSE SCALE,
         bearing |-> 0, accuracy |-> 5 * SCALE, lap |-> lapNumber,
         lateral_acc |-> imu.lateral_acc, longitudinal_acc |-> imu.longitudinal_acc,
         yaw_rate |-> imu.yaw_rate]]

\* the way out of the pits, lap number 0, five seconds into the recording
OutLap == CsvLap(0, 1, 5 * TicksPerSec, CHOOSE y \in ImuReadings : y.yaw_rate = 0, 0)

\* what parseCSVString can return: nothing, samples of no lap, one lap that
\* starts late, two laps of which the second comes first in the file
ParsedFiles ==
    { << >>, OutLap }
    \cup { OutLap \o CsvLap(1, n, 7 * TicksPerSec, y, l) :
              n \in 1..MaxLapSamples, y \in ImuReadings, l \in { 0, downsampleRatio } }
    \cup { CsvLap(2, 2, 0, y, 0) \o CsvLap(1, n, 3 * TicksPerSec, y, 0) :
              n \in 1..MaxLapSamples, y \in ImuReadings }

CsvNoise == { <<0, 0>>, <<3, -2>> }

\* the Gaussian draws the run will take: one draw or a pair of draws, repeated
DrawPatterns == { << a >> : a \in CsvNoise } \cup { << a, b >> : a, b \in CsvNoise }

\* draws from+1 .. from+n of the stream
drawsFrom(stream, from, n) ==
    [k \in 1..n |-> stream[((from + k - 1) % Len(stream)) + 1]]

CsvInit ==
    /\ fullDataRaw \in ParsedFiles
    /\ randoms \in DrawPatterns
    /\ drawn = 0
    /\ laps = << >>
    /\ lapIdx = 0
    /\ path = "none"
    /\ lapOut = << >>
    /\ allLapsData = << >>
    /\ selectedLapData = << >>
    /\ progress = << >>
    /\ thrown = ""
    /\ cpc = "start"
    /\ ConfigIdle
    /\ RunnerIdle
    /\ ApiIdle
    /\ HeapIdle
    /\ MoreIdle
    /\ OutlierIdle
    /\ ReconIdle
    /\ EkfIdle
    /\ EnrichIdle
    /\ MetricsIdle

\* what no step of processCSV touches
CsvFrame ==
    UNCHANGED <<rpc, ekf, gpsIdx, nextGpsTime, sampleIdx, trajectory, lastStep,
                outlierVars, enrichVars, metricsVars, apiVars, heapVars, moreVars>>

RunnerUnchanged ==
    UNCHANGED <<expIdx, trialMetrics, results, originalConfig, originalEkfConfig,
                ekfBest, algResults>>

ReconUnchanged == UNCHANGED <<fullData, gpsData, linear, spline, ekfRaw, ekfSmooth>>

\* processCSV, parsing yields nothing
CsvParseEmpty ==
    /\ cpc = "start"
    /\ Len(fullDataRaw) = 0
    /\ progress' = Append(progress, "parsing")
    /\ thrown' = "No valid telemetry data found in CSV"
    /\ cpc' = "failed"
    /\ UNCHANGED <<fullDataRaw, randoms, drawn, laps, lapIdx, path, lapOut, allLapsData,
                   selectedLapData, tpc, configVars>>
    /\ RunnerUnchanged /\ ReconUnchanged /\ CsvFrame

\* processCSV, no sample carries a lap number above 0
CsvParseNoLaps ==
    /\ cpc = "start"
    /\ Len(fullDataRaw) # 0
    /\ Len(lapsOf(fullDataRaw)) = 0
    /\ progress' = Append(progress, "parsing")
    /\ laps' = lapsOf(fullDataRaw)
    /\ thrown' = "No laps found in telemetry data"
    /\ cpc' = "failed"
    /\ UNCHANGED <<fullDataRaw, randoms, drawn, lapIdx, path, lapOut, allLapsData,
                   selectedLapData, tpc, configVars>>
    /\ RunnerUnchanged /\ ReconUnchanged /\ CsvFrame

\* processCSV, steps 1 and 2
CsvParse ==
    /\ cpc = "start"
    /\ Len(fullDataRaw) # 0
    /\ Len(lapsOf(fullDataRaw)) # 0
    /\ laps' = lapsOf(fullDataRaw)
    /\ progress' = progress \o << "parsing", "laps" >>
    /\ cpc' = "laps"
    /\ UNCHANGED <<fullDataRaw, randoms, drawn, lapIdx, path, lapOut, allLapsData,
                   selectedLapData, thrown, tpc, configVars>>
    /\ RunnerUnchanged /\ ReconUnchanged /\ CsvFrame

\* one turn of the loop of step 3 up to the first runAllAlgorithms call of
\* processLap; a lap of laps always has samples, so processLap never returns null
CsvNextLap ==
    /\ cpc = "laps"
    /\ lapIdx < Len(laps)
    /\ LET lap == laps[lapIdx + 1]
           normalized == normalizeTimestamps(fullDataRaw, lap)
           prepared == prepareLap(normalized, lap,
                                  drawsFrom(randoms, drawn, fixCount(fullDataRaw, lap)))
       IN  /\ progress' = Append(progress, "processing")
           /\ fullDataRaw' = normalized
           /\ drawn' = drawn + fixCount(fullDataRaw, lap)
           /\ lapOut' = prepared
           /\ fullData' = prepared.groundTruth
           /\ gpsData' = prepared.cleanGPS
    /\ path' = "clean"
    /\ tpc' = "start"
    /\ cpc' = "lap"
    /\ UNCHANGED <<randoms, laps, lapIdx, allLapsData, selectedLapData, thrown, configVars,
                   linear, spline, ekfRaw, ekfSmooth>>
    /\ RunnerUnchanged /\ CsvFrame

\* runAllAlgorithms up to the experiments: the four reconstructions
RunReconstructors ==
    /\ tpc = "start"
    /\ linear' = applyLinearInterpolation(fullData, gpsData)
    /\ spline' = applySplineInterpolation(fullData, gpsData)
    /\ LET raw == runSensorFusion(fullData, gpsData)
       IN  /\ ekfRaw' = raw
           /\ ekfSmooth' = smoothTrajectoryWithSpline(raw, imuHz)
    /\ results' = << >>
    /\ expIdx' = 0
    /\ tpc' = "trial"
    /\ UNCHANGED <<fullData, gpsData, trialMetrics, originalConfig, originalEkfConfig,
                   ekfBest, algResults, configVars, csvVars>>
    /\ CsvFrame

\* runEkfExperiment: save CONFIG.ekf, apply the parameters of the experiment
TrialBegin ==
    /\ tpc = "trial"
    /\ expIdx < Len(experiments)
    /\ originalConfig' = configEkf
    /\ configEkf' = objectAssign(configEkf, ekfParams(experiments[expIdx + 1]))
    /\ tpc' = "assigned"
    /\ UNCHANGED <<expIdx, trialMetrics, results, originalEkfConfig, ekfBest, algResults, csvVars>>
    /\ ReconUnchanged /\ CsvFrame

\* runEkfExperiment: run the filter and measure it
TrialRun ==
    /\ tpc = "assigned"
    /\ trialMetrics' = calculateAccuracyMetrics(fullData, runSensorFusion(fullData, gpsData))
    /\ tpc' = "ran"
    /\ UNCHANGED <<expIdx, results, originalConfig, originalEkfConfig, ekfBest, algResults,
                   configVars, csvVars>>
    /\ ReconUnchanged /\ CsvFrame

\* variant: the parameters of the trial stay in CONFIG.ekf
restoreConfigNot(current, saved) == current

\* Object.assign(CONFIG.ekf, originalConfig)
restoreConfig(current, saved) == objectAssign(current, saved)

\* runEkfExperiment: restore CONFIG.ekf and return; the caller pushes
\* { ...exp, ...metrics }
TrialEnd ==
    /\ tpc = "ran"
    /\ configEkf' = restoreConfig(configEkf, originalConfig)
    /\ results' = Append(results, trialMetrics @@ experiments[expIdx + 1])
    /\ expIdx' = expIdx + 1
    /\ tpc' = "trial"
    /\ UNCHANGED <<trialMetrics, originalConfig, originalEkfConfig, ekfBest, algResults, csvVars>>
    /\ ReconUnchanged /\ CsvFrame

\* runEkfExperiments: every experiment has run, sort and return
SortResults ==
    /\ tpc = "trial"
    /\ expIdx = Len(experiments)
    /\ results' = sortByRmse(results, Len(results))
    /\ tpc' = "sorted"
    /\ UNCHANGED <<expIdx, trialMetrics, originalConfig, originalEkfConfig, ekfBest, algResults,
                   configVars, csvVars>>
    /\ ReconUnchanged /\ CsvFrame

\* runAllAlgorithms: bestConfig = ekfExperiments[0], save CONFIG.ekf, apply it
BestBegin ==
    /\ tpc = "sorted"
    /\ originalEkfConfig' = configEkf
    /\ configEkf' = objectAssign(configEkf, ekfParams(results[1]))
    /\ tpc' = "best"
    /\ UNCHANGED <<expIdx, trialMetrics, results, originalConfig, ekfBest, algResults, csvVars>>
    /\ ReconUnchanged /\ CsvFrame

\* runAllAlgorithms: the run with the best configuration
BestRun ==
    /\ tpc = "best"
    /\ ekfBest' = runSensorFusion(fullData, gpsData)
    /\ tpc' = "bestRan"
    /\ UNCHANGED <<expIdx, trialMetrics, results, originalConfig, originalEkfConfig, algResults,
                   configVars, csvVars>>
    /\ ReconUnchanged /\ CsvFrame

\* runAllAlgorithms: restore CONFIG.ekf, measure the five outputs, return
BestEnd ==
    /\ tpc = "bestRan"
    /\ configEkf' = restoreConfig(configEkf, originalEkfConfig)
    /\ algResults' =
          [linear |-> linear, spline |-> spline, ekfRaw |-> ekfRaw,
           ekfSmooth |-> ekfSmooth, ekfBest |-> ekfBest,
           metrics |->
              [linear |-> calculateAccuracyMetrics(fullData, linear),
               spline |-> calculateAccuracyMetrics(fullData, spline),
               ekfRaw |-> calculateAccuracyMetrics(fullData, ekfRaw),
               ekfSmooth |-> calculateAccuracyMetrics(fullData, ekfSmooth),
               ekfBest |-> ("config" :> results[1])
                           @@ calculateAccuracyMetrics(fullData, ekfBest)]]
    /\ tpc' = "returned"
    /\ UNCHANGED <<expIdx, trialMetrics, results, originalConfig, originalEkfConfig, ekfBest,
                   csvVars>>
    /\ ReconUnchanged /\ CsvFrame

\* processLap / processCSV between the two runAllAlgorithms calls: keep the
\* clean results, go on with the noisy fixes
CleanResultsDone ==
    /\ tpc = "returned"
    /\ path = "clean"
    /\ lapOut' = ("cleanResults" :> algResults) @@ lapOut
    /\ gpsData' = lapOut.noisyGPS
    /\ path' = "noisy"
    /\ tpc' = "start"
    /\ UNCHANGED <<fullDataRaw, randoms, drawn, laps, lapIdx, allLapsData, selectedLapData,
                   progress, thrown, cpc, configVars, fullData, linear, spline, ekfRaw, ekfSmooth>>
    /\ RunnerUnchanged /\ CsvFrame

\* the object processLap returns, without the chart data
lapResult(out, cleanResults, noisyResults) ==
    [lap |-> out.lap,
     groundTruth |-> out.groundTruth,
     totalDistance |-> out.totalDistance,
     cleanGPS |-> out.cleanGPS,
     noisyGPS |-> out.noisyGPS,
     cleanLinear |-> cleanResults.linear,
     cleanSpline |-> cleanResults.spline,
     cleanEkfRaw |-> cleanResults.ekfRaw,
     cleanEkfSmooth |-> cleanResults.ekfSmooth,
     noisyLinear |-> noisyResults.linear,
     noisySpline |-> noisyResults.spline,
     noisyEkfRaw |-> noisyResults.ekfRaw,
     noisyEkfSmooth |-> noisyResults.ekfSmooth,
     cleanMetrics |-> cleanResults.metrics,
     noisyMetrics |-> noisyResults.metrics,
     outliers |-> out.outliers,
     duration |-> out.duration]

\* processLap returns, allLapsData[lap] is set
LapReturn ==
    /\ cpc = "lap"
    /\ tpc = "returned"
    /\ path = "noisy"
    /\ allLapsData' = Append(allLapsData, lapResult(lapOut, lapOut.cleanResults, algResults))
    /\ lapIdx' = lapIdx + 1
    /\ path' = "none"
    /\ tpc' = "idle"
    /\ cpc' = "laps"
    /\ UNCHANGED <<fullDataRaw, randoms, drawn, laps, lapOut, selectedLapData, progress, thrown,
                   configVars>>
    /\ RunnerUnchanged /\ ReconUnchanged /\ CsvFrame

\* step 4 up to the first runAllAlgorithms call: the first lap once more
CsvAnalysis ==
    /\ cpc = "laps"
    /\ lapIdx = Len(laps)
    /\ LET selectedLap == laps[1]
           normalized == normalizeTimestamps(fullDataRaw, selectedLap)
           prepared == prepareLap(normalized, selectedLap,
                                  drawsFrom(randoms, drawn, fixCount(fullDataRaw, selectedLap)))
       IN  /\ progress' = progress \o << "analysis", "ekf" >>
           /\ fullDataRaw' = normalized
           /\ drawn' = drawn + fixCount(fullDataRaw, selectedLap)
           /\ lapOut' = prepared
           /\ fullData' = prepared.groundTruth
           /\ gpsData' = prepared.cleanGPS
    /\ path' = "clean"
    /\ tpc' = "start"
    /\ cpc' = "analysis"
    /\ UNCHANGED <<randoms, laps, lapIdx, allLapsData, selectedLapData, thrown, configVars,
                   linear, spline, ekfRaw, ekfSmooth>>
    /\ RunnerUnchanged /\ CsvFrame

\* processCSV returns
CsvComplete ==
    /\ cpc = "analysis"
    /\ tpc = "returned"
    /\ path = "noisy"
    /\ progress' = Append(progress, "complete")
    /\ selectedLapData' =
          [groundTruth |-> lapOut.groundTruth,
           cleanGPS |-> lapOut.cleanGPS,
           noisyGPS |-> lapOut.noisyGPS,
           cleanResults |-> lapOut.cleanResults,
           noisyResults |-> algResults,
           totalDistance |-> lapOut.totalDistance,
           outliers |-> lapOut.outliers]
    /\ path' = "none"
    /\ tpc' = "idle"
    /\ cpc' = "done"
    /\ UNCHANGED <<fullDataRaw, randoms, drawn, laps, lapIdx, lapOut, allLapsData, thrown,
                   configVars>>
    /\ RunnerUnchanged /\ ReconUnchanged /\ CsvFrame

CsvNext ==
    \/ CsvParseEmpty
    \/ CsvParseNoLaps
    \/ CsvParse
    \/ CsvNextLap
    \/ RunReconstructors
    \/ TrialBegin
    \/ TrialRun
    \/ TrialEnd
    \/ SortResults
    \/ BestBegin
    \/ BestRun
    \/ BestEnd
    \/ CleanResultsDone
    \/ LapReturn
    \/ CsvAnalysis
    \/ CsvComplete

CsvSpec == CsvInit /\ [][CsvNext]_vars

\* C14: processCSV fails when parsing yields no sample or no lap is found,
\* and by then no lap has been processed: no "processing" progress callback
\* has been made and processLap has not been entered
C14_FailsBeforeAnyLap ==
    /\ (cpc # "start" /\ (Len(fullDataRaw) = 0 \/ \A i \in 1..Len(fullDataRaw) : fullDataRaw[i].lap <= 0))
          => cpc = "failed"
    /\ cpc = "failed" =>
          /\ thrown # ""
          /\ \A k \in 1..Len(progress) : progress[k] # "processing"
          /\ lapOut = << >>
          /\ allLapsData = << >>
          /\ drawn = 0

C14_Witness ==
    /\ cpc = "failed"
    /\ thrown = "No laps found in telemetry data"
    /\ Len(fullDataRaw) > 0

\* a <= b on metric values, of which Infinity is the largest
atMost(a, b) == ~b.finite \/ (a.finite /\ a.at <= b.at)

\* CONFIG.ekf is in the hands of a trial or of the best run
insideTrial == tpc \in { "assigned", "ran", "best", "bestRan" }

\* C15: CONFIG.ekf holds the values it held before the call after every
\* runEkfExperiment call and after runAllAlgorithms returns: every trial of
\* the grid starts from the same configuration, and so does every later
\* reconstructor run
C15_ConfigRestored ==
    /\ ~insideTrial => configEkf = DefaultEkf
    /\ insideTrial => configEkf.min_speed_for_heading = DefaultEkf.min_speed_for_heading
    /\ tpc \in { "assigned", "ran" } => originalConfig = DefaultEkf
    /\ tpc \in { "best", "bestRan" } => originalEkfConfig = DefaultEkf

\* a second runAllAlgorithms call has returned after 16 trials and 2 best runs
C15_Witness ==
    /\ tpc = "returned"
    /\ path = "noisy"
    /\ configEkf = DefaultEkf
    /\ ekfParams(results[1]) # ekfParams(DefaultEkf)

\* C16: the parameters runAllAlgorithms uses for ekfBest are those of a grid
\* entry whose trial RMSE is the smallest of all trials, and the RMSE reported
\* for ekfBest is at most the RMSE of every trial
C16_BestIsSmallest ==
    tpc = "returned" =>
        LET best == algResults.metrics.ekfBest
        IN  /\ \E e \in 1..Len(experiments) :
                  /\ ekfParams(best.config) = ekfParams(experiments[e])
                  /\ best.config.label = experiments[e].label
            /\ Len(results) = Len(experiments)
            /\ \A k \in 1..Len(results) :
                  /\ atMost(best.config.rmse, results[k].rmse)
                  /\ atMost(best.rmse, results[k].rmse)

\* the trials differ, and the first entry of the grid is not the best
C16_Witness ==
    /\ tpc = "returned"
    /\ algResults.metrics.ekfBest.config.label # "Default"
    /\ \E k \in 1..Len(results) :
          /\ results[k].label = "Default"
          /\ results[k].rmse.finite
          /\ algResults.metrics.ekfBest.rmse.finite
          /\ algResults.metrics.ekfBest.rmse.at < results[k].rmse.at

\* the draws of the first and of the second processing of the first lap
firstDraws == drawsFrom(randoms, 0, allLapsData[1].outliers.total)
secondDraws ==
    drawsFrom(randoms, drawn - selectedLapData.outliers.total, selectedLapData.outliers.total)

\* C11: two runs of the per-lap pipeline on the same samples and configuration
\* that are fed the same random draws produce the same fix sequences,
\* reconstructor outputs and metrics; processCSV runs the pipeline on its
\* first lap twice, in step 3 and in step 4
C11_SameDrawsSameResults ==
    (cpc = "done" /\ firstDraws = secondDraws) =>
        LET first == allLapsData[1]
            again == selectedLapData
        IN  /\ again.groundTruth = first.groundTruth
            /\ again.totalDistance = first.totalDistance
            /\ again.cleanGPS = first.cleanGPS
            /\ again.noisyGPS = first.noisyGPS
            /\ again.outliers = first.outliers
            /\ again.cleanResults.linear = first.cleanLinear
            /\ again.cleanResults.spline = first.cleanSpline
            /\ again.cleanResults.ekfRaw = first.cleanEkfRaw
            /\ again.cleanResults.ekfSmooth = first.cleanEkfSmooth
            /\ again.noisyResults.linear = first.noisyLinear
            /\ again.noisyResults.spline = first.noisySpline
            /\ again.noisyResults.ekfRaw = first.noisyEkfRaw
            /\ again.noisyResults.ekfSmooth = first.noisyEkfSmooth
            /\ again.cleanResults.metrics = first.cleanMetrics
            /\ again.noisyResults.metrics = first.noisyMetrics

\* both runs took the same draws, not all of them zero, from a lap that
\* started late in the file
C11_Witness ==
    /\ cpc = "done"
    /\ firstDraws = secondDraws
    /\ selectedLapData.noisyGPS # selectedLapData.cleanGPS
    /\ Len(selectedLapData.groundTruth) > 1
    /\ fullDataRaw[1].lap = 0

\* with other draws the second run gives other results
C11_DrawsMatter ==
    /\ cpc = "done"
    /\ firstDraws # secondDraws
    /\ selectedLapData.noisyResults.ekfRaw # allLapsData[1].noisyEkfRaw

TimesOf(points) == [i \in 1..Len(points) |-> points[i].timestamp]

\* C29: lap timestamp normalisation works in place on the samples of the file
\* and is idempotent. A step of processCSV that normalises a lap (processLap,
\* or step 4 for the selected lap) shifts the file's samples of that lap so
\* that the lap's first sample is at 0 and the lap handed on starts at 0, and
\* leaves the samples of every other lap as they are; the second
\* normalisation of the selected lap changes no timestamp and hands on the
\* timestamps the first one handed on; no other step changes a sample.
C29_NormalisedInPlaceOnce ==
    /\ [][(cpc = "laps" /\ cpc' \in {"lap", "analysis"}) =>
             LET lap == lapOut'.lap
                 before == lapFilter(fullDataRaw, lap)
                 after == lapFilter(fullDataRaw', lap)
             IN  /\ Len(fullDataRaw') = Len(fullDataRaw)
                 /\ \A i \in 1..Len(fullDataRaw) :
                       IF fullDataRaw[i].lap = lap
                       THEN fullDataRaw'[i] =
                               [fullDataRaw[i] EXCEPT !.timestamp = @ - before[1].timestamp]
                       ELSE fullDataRaw'[i] = fullDataRaw[i]
                 /\ after[1].timestamp = 0
                 /\ TimesOf(lapOut'.groundTruth) = TimesOf(after)
                 /\ cpc' = "analysis" =>
                       /\ lap = allLapsData[1].lap
                       /\ fullDataRaw' = fullDataRaw
                       /\ TimesOf(lapOut'.groundTruth) = TimesOf(allLapsData[1].groundTruth)]_vars
    /\ [][(cpc # "laps" /\ cpc # "start") => fullDataRaw' = fullDataRaw]_vars

\* the selected lap has been normalised a second time, in a file of two laps
\* and in a file whose first sample, of no lap, stays five seconds in
C29_Witness ==
    /\ cpc = "analysis"
    /\ tpc = "start"
    /\ \E i, j \in 1..Len(fullDataRaw) :
          /\ i < j
          /\ fullDataRaw[i].lap = laps[1]
          /\ fullDataRaw[j].lap = laps[1]
          /\ fullDataRaw[i].timestamp = 0
          /\ fullDataRaw[j].timestamp > 0
    /\ \/ Len(laps) = 2
       \/ fullDataRaw[1].lap = 0 /\ fullDataRaw[1].timestamp = 5 * TicksPerSec

----------------------------------------------------------------------------
(* Specification of the ownership of the arrays in runAllAlgorithms: the    *)
(* lap and the fix sequence are two arrays of the caller, every             *)
(* reconstructor returns a reference, to an array it has built or to one    *)
(* it was handed.                                                           *)

\* applyLinearInterpolation: if (noisyGPS.length < 2) return noisyGPS
linearReturnsInput(noisyGPS) == Len(noisyGPS) < 2

\* applySplineInterpolation: if (noisyGPS.length < 2) return noisyGPS
splineReturnsInput(noisyGPS) == Len(noisyGPS) < 2

\* smoothTrajectoryWithSpline: the two 'return trajectory'
smoothReturnsInput(traj, ratio) ==
    \/ Len(traj) < ratio * 2
    \/ Len(controlPointIndices(Len(traj), ratio)) < 4

\* const result = []; ... return result
allocate(h, array) == [heap |-> Append(h, array), ref |-> Len(h) + 1]

OwnInit ==
    /\ fullData \in RunLaps
    /\ LET fixes == downsampleGPS(fullData)
       IN  \E d \in RunNoise :
              gpsData = filterGPSOutliers(addGPSNoise(fixes, [k \in 1..Len(fixes) |-> d]),
                                          DefaultOutlierDetection).filtered
    /\ heap = << fullData, gpsData >>
    /\ refs = [NoRefs EXCEPT !.fullData = 1, !.gpsData = 2]
    /\ hpc = "start"
    /\ linear = << >>
    /\ spline = << >>
    /\ rpc = "idle"
    /\ OutlierIdle
    /\ EkfIdle
    /\ ConfigIdle
    /\ ApiIdle
    /\ RunnerIdle
    /\ CsvIdle
    /\ MoreIdle
    /\ EnrichIdle
    /\ MetricsIdle

OwnFrame ==
    UNCHANGED <<fullData, gpsData, linear, spline, rpc, ekfVars, outlierVars, enrichVars,
                metricsVars, configVars, apiVars, runnerVars, csvVars, moreVars>>

\* const linear = applyLinearInterpolation(fullData, gpsData)
OwnLinear ==
    /\ hpc = "start"
    /\ IF linearReturnsInput(heap[refs.gpsData])
       THEN /\ refs' = [refs EXCEPT !.linear = refs.gpsData]
            /\ heap' = heap
       ELSE LET a == allocate(heap, applyLinearInterpolation(heap[refs.fullData], heap[refs.gpsData]))
            IN  /\ refs' = [refs EXCEPT !.linear = a.ref]
                /\ heap' = a.heap
    /\ hpc' = "linear"
    /\ OwnFrame

\* const spline = applySplineInterpolation(fullData, gpsData)
OwnSpline ==
    /\ hpc = "linear"
    /\ IF splineReturnsInput(heap[refs.gpsData])
       THEN /\ refs' = [refs EXCEPT !.spline = refs.gpsData]
            /\ heap' = heap
       ELSE LET a == allocate(heap, applySplineInterpolation(heap[refs.fullData], heap[refs.gpsData]))
            IN  /\ refs' = [refs EXCEPT !.spline = a.ref]
                /\ heap' = a.heap
    /\ hpc' = "spline"
    /\ OwnFrame

\* const ekfRaw = runSensorFusion(fullData, gpsData): always its own trajectory
OwnEkfRaw ==
    /\ hpc = "spline"
    /\ LET a == allocate(heap, runSensorFusion(heap[refs.fullData], heap[refs.gpsData]))
       IN  /\ refs' = [refs EXCEPT !.ekfRaw = a.ref]
           /\ heap' = a.heap
    /\ hpc' = "ekfRaw"
    /\ OwnFrame

\* const ekfSmooth = smoothTrajectoryWithSpline(ekfRaw, CONFIG.sampling.imuHz)
OwnEkfSmooth ==
    /\ hpc = "ekfRaw"
    /\ IF smoothReturnsInput(heap[refs.ekfRaw], imuHz)
       THEN /\ refs' = [refs EXCEPT !.ekfSmooth = refs.ekfRaw]
            /\ heap' = heap
       ELSE LET a == allocate(heap, smoothTrajectoryWithSpline(heap[refs.ekfRaw], imuHz))
            IN  /\ refs' = [refs EXCEPT !.ekfSmooth = a.ref]
                /\ heap' = a.heap
    /\ hpc' = "ekfSmooth"
    /\ OwnFrame

OwnNext ==
    \/ OwnLinear
    \/ OwnSpline
    \/ OwnEkfRaw
    \/ OwnEkfSmooth

OwnSpec == OwnInit /\ [][OwnNext]_vars

\* C17: the reconstructors leave the lap and the fix sequence as they were,
\* and what each returns is an array of its own: not the fix sequence it was
\* given, not the trajectory it was given
C17_NewSequences ==
    /\ hpc # "idle" =>
          /\ heap[refs.fullData] = fullData
          /\ heap[refs.gpsData] = gpsData
    /\ refs.linear # 0 => refs.linear \notin { refs.fullData, refs.gpsData }
    /\ refs.spline # 0 => refs.spline \notin { refs.fullData, refs.gpsData, refs.linear }
    /\ refs.ekfRaw # 0 => refs.ekfRaw \notin { refs.fullData, refs.gpsData, refs.linear, refs.spline }
    /\ refs.ekfSmooth # 0 =>
          refs.ekfSmooth \notin { refs.fullData, refs.gpsData, refs.linear, refs.spline, refs.ekfRaw }

\* the part of it that holds: the inputs are left as they were, and
\* runSensorFusion returns an array of its own
C17_InputsUntouched ==
    /\ hpc # "idle" =>
          /\ heap[refs.fullData] = fullData
          /\ heap[refs.gpsData] = gpsData
    /\ refs.ekfRaw # 0 => refs.ekfRaw \notin { refs.fullData, refs.gpsData, refs.linear, refs.spline }

----------------------------------------------------------------------------
(* GPS-only Kalman filter with RTS smoother (filters/kalman-1d.js).  The     *)
(* reals of this filter are fixed-point with KalmanUnit units to 1; seconds, *)
(* metres and the variances alike.                                           *)

KalmanUnit == SCALE \div 10
KMul(a, b) == (a * b) \div KalmanUnit
KDiv(a, b) == (a * KalmanUnit) \div b

kalmanR == KalmanUnit \div 100  \* CONFIG.kalman.R = 0.01
kalmanQ == KalmanUnit           \* CONFIG.kalman.Q = 1.0
initialP == 100 * KalmanUnit    \* CONFIG.kalman.initialP = 100

\* the predict branch of the forward pass
rtsPredict(x, P, dt, Q) ==
    LET dt2 == KMul(dt, dt)
        dt3 == KMul(dt2, dt)
        dt4 == KMul(dt3, dt)
    IN  [x |-> << x[1] + KMul(x[2], dt), x[2] >>,
         P |-> << << P[1][1] + KMul(dt, P[2][1]) + KMul(dt, P[1][2]) + KMul(dt2, P[2][2])
                        + KMul(dt4 \div 4, Q),
                     P[1][2] + KMul(dt, P[2][2]) + KMul(dt3 \div 2, Q) >>,
                  << P[2][1] + KMul(dt, P[2][2]) + KMul(dt3 \div 2, Q),
                     P[2][2] + KMul(dt2, Q) >> >>]

\* the update branch of the forward pass
rtsUpdate(x, P, z, R) ==
    LET y == z - x[1]
        S == P[1][1] + R
        K == << KDiv(P[1][1], S), KDiv(P[2][1], S) >>
    IN  [x |-> << x[1] + KMul(K[1], y), x[2] + KMul(K[2], y) >>,
         P |-> << << KMul(KalmanUnit - K[1], P[1][1]), KMul(KalmanUnit - K[1], P[1][2]) >>,
                  << P[2][1] - KMul(K[2], P[1][1]), P[2][2] - KMul(K[2], P[1][2]) >> >>]

\* timestamps[i] - timestamps[i - 1] in seconds
secondsBetween(timestamps, i) ==
    ((timestamps[i] - timestamps[i - 1]) * KalmanUnit) \div TicksPerSec

\* forward pass of rtsSmooth1D over samples 1..i: x_pred, P_pred, x_fwd, P_fwd
RECURSIVE rtsForward(_, _, _, _, _, _)
rtsForward(measurements, timestamps, R, Q, initialValue, i) ==
    IF i = 0 THEN << >>
    ELSE LET before == rtsForward(measurements, timestamps, R, Q, initialValue, i - 1)
             x == IF i = 1 THEN << initialValue, 0 >> ELSE before[i - 1].x_fwd
             P == IF i = 1 THEN << << initialP, 0 >>, << 0, initialP >> >> ELSE before[i - 1].P_fwd
             dt == IF i = 1 THEN 0 ELSE secondsBetween(timestamps, i)
             pred == IF dt > 0 THEN rtsPredict(x, P, dt, Q) ELSE [x |-> x, P |-> P]
             fwd == IF measurements[i] # NULL
                    THEN rtsUpdate(pred.x, pred.P, measurements[i][1], R)
                    ELSE pred
         IN  Append(before, [x_pred |-> pred.x, P_pred |-> pred.P,
                             x_fwd |-> fwd.x, P_fwd |-> fwd.P])

\* backward pass of rtsSmooth1D: x_smooth[i], given the forward pass
RECURSIVE rtsBackward(_, _, _)
rtsBackward(f, timestamps, i) ==
    IF i = Len(f) THEN f[i].x_fwd
    ELSE LET dt == secondsBetween(timestamps, i + 1)
             Pp == f[i + 1].P_pred
             P_pred_inv_det == KMul(Pp[1][1], Pp[2][2]) - KMul(Pp[1][2], Pp[2][1])
         IN  IF dt <= 0 THEN f[i].x_fwd
             ELSE IF P_pred_inv_det = 0 THEN f[i].x_fwd
             ELSE LET inv == << << KDiv(Pp[2][2], P_pred_inv_det), KDiv(-Pp[1][2], P_pred_inv_det) >>,
                                << KDiv(-Pp[2][1], P_pred_inv_det), KDiv(Pp[1][1], P_pred_inv_det) >> >>
                      Pf == f[i].P_fwd
                      PF == << << Pf[1][1] + KMul(Pf[1][2], dt), Pf[1][2] >>,
                               << Pf[2][1] + KMul(Pf[2][2], dt), Pf[2][2] >> >>
                      C == << << KMul(PF[1][1], inv[1][1]) + KMul(PF[1][2], inv[2][1]),
                                 KMul(PF[1][1], inv[1][2]) + KMul(PF[1][2], inv[2][2]) >>,
                              << KMul(PF[2][1], inv[1][1]) + KMul(PF[2][2], inv[2][1]),
                                 KMul(PF[2][1], inv[1][2]) + KMul(PF[2][2], inv[2][2]) >> >>
                      next == rtsBackward(f, timestamps, i + 1)
                      dx == << next[1] - f[i + 1].x_pred[1], next[2] - f[i + 1].x_pred[2] >>
                  IN  << f[i].x_fwd[1] + KMul(C[1][1], dx[1]) + KMul(C[1][2], dx[2]),
                         f[i].x_fwd[2] + KMul(C[2][1], dx[1]) + KMul(C[2][2], dx[2]) >>

\* rtsSmooth1D: the smoothed positions
rtsSmooth1D(measurements, timestamps, R, Q, initialValue) ==
    IF Len(timestamps) = 0 THEN << >>
    ELSE LET f == rtsForward(measurements, timestamps, R, Q, initialValue, Len(timestamps))
         IN  [i \in 1..Len(timestamps) |-> rtsBackward(f, timestamps, i)[1]]

(* Specification of applyGPSOnlyKalman: a lap with non-decreasing           *)
(* timestamps and fixes that are a subsequence of its samples (or no fix);  *)
(* the measurement arrays are filled sample by sample, then both axes are   *)
(* smoothed.                                                                *)

KalmanInit ==
    /\ fullData \in RunLaps
    /\ LET fixes == downsampleGPS(fullData)
       IN  \/ \E d \in RunNoise :
                 gpsData = filterGPSOutliers(addGPSNoise(fixes, [k \in 1..Len(fixes) |-> d]),
                                             DefaultOutlierDetection).filtered
           \/ gpsData = << >>
    /\ latMeasurements = << >>
    /\ lonMeasurements = << >>
    /\ filtered = << >>
    /\ kpc = "start"
    /\ linear = << >>
    /\ spline = << >>
    /\ rpc = "idle"
    /\ OutlierIdle
    /\ EkfIdle
    /\ ConfigIdle
    /\ ApiIdle
    /\ RunnerIdle
    /\ CsvIdle
    /\ HeapIdle
    /\ ExtremaIdle
    /\ PlayIdle
    /\ EnrichIdle
    /\ MetricsIdle

KalmanFrame ==
    UNCHANGED <<fullData, gpsData, linear, spline, rpc, ekf, trajectory, lastStep, ekfRaw,
                ekfSmooth, outlierVars, enrichVars, metricsVars, configVars, apiVars,
                runnerVars, csvVars, heapVars, extremaVars, playVars>>

\* if (noisyGPS.length === 0) return []
KalmanNoFixes ==
    /\ kpc = "start"
    /\ Len(gpsData) = 0
    /\ filtered' = << >>
    /\ kpc' = "done"
    /\ UNCHANGED <<gpsIdx, nextGpsTime, sampleIdx, latMeasurements, lonMeasurements>>
    /\ KalmanFrame

\* up to the loop: the slice starts at the sample of the first fix
KalmanStart ==
    /\ kpc = "start"
    /\ Len(gpsData) # 0
    /\ sampleIdx' = gpsData[1].originalIndex
    /\ gpsIdx' = 0
    /\ nextGpsTime' = Finite(gpsData[1].timestamp)
    /\ kpc' = "measure"
    /\ UNCHANGED <<latMeasurements, lonMeasurements, filtered>>
    /\ KalmanFrame

\* variant of the test below without the clock: a fix is taken whenever one is left
measurementDueNoClock == gpsIdx < Len(gpsData)

\* the test of the loop over dataSlice
measurementDue ==
    /\ nextGpsTime.finite
    /\ fullData[sampleIdx + 1].timestamp >= nextGpsTime.at
    /\ gpsIdx < Len(gpsData)

KalmanMeasure ==
    /\ kpc = "measure"
    /\ sampleIdx < Len(fullData)
    /\ measurementDue
    /\ latMeasurements' = Append(latMeasurements, Some(gpsData[gpsIdx + 1].lat))
    /\ lonMeasurements' = Append(lonMeasurements, Some(gpsData[gpsIdx + 1].lon))
    /\ gpsIdx' = gpsIdx + 1
    /\ nextGpsTime' = timestampOrInfinity(gpsData, gpsIdx + 1)
    /\ sampleIdx' = sampleIdx + 1
    /\ UNCHANGED <<filtered, kpc>>
    /\ KalmanFrame

KalmanNoMeasure ==
    /\ kpc = "measure"
    /\ sampleIdx < Len(fullData)
    /\ ~measurementDue
    /\ latMeasurements' = Append(latMeasurements, NULL)
    /\ lonMeasurements' = Append(lonMeasurements, NULL)
    /\ sampleIdx' = sampleIdx + 1
    /\ UNCHANGED <<gpsIdx, nextGpsTime, filtered, kpc>>
    /\ KalmanFrame

\* a measurement array in the fixed-point unit of the filter
inKalmanUnits(measurements) ==
    [i \in 1..Len(measurements) |->
        IF measurements[i] = NULL THEN NULL ELSE Some(measurements[i][1] * KalmanUnit)]

\* the slice, as the loop has walked it
dataSlice == SubSeq(fullData, gpsData[1].originalIndex + 1, Len(fullData))

\* both axes smoothed, the result built; lat and lon of the result are in
\* 1 / KalmanUnit metres
KalmanSmooth ==
    /\ kpc = "measure"
    /\ sampleIdx >= Len(fullData)
    /\ LET timestamps == [i \in 1..Len(dataSlice) |-> dataSlice[i].timestamp]
           smoothedLat == rtsSmooth1D(inKalmanUnits(latMeasurements), timestamps, kalmanR,
                                      kalmanQ, gpsData[1].lat * KalmanUnit)
           smoothedLon == rtsSmooth1D(inKalmanUnits(lonMeasurements), timestamps, kalmanR,
                                      kalmanQ, gpsData[1].lon * KalmanUnit)
       IN  filtered' = [i \in 1..Len(dataSlice) |->
                           PositionalFix(dataSlice[i].timestamp, smoothedLat[i], smoothedLon[i])]
    /\ kpc' = "done"
    /\ UNCHANGED <<gpsIdx, nextGpsTime, sampleIdx, latMeasurements, lonMeasurements>>
    /\ KalmanFrame

KalmanNext ==
    \/ KalmanNoFixes
    \/ KalmanStart
    \/ KalmanMeasure
    \/ KalmanNoMeasure
    \/ KalmanSmooth

KalmanSpec == KalmanInit /\ [][KalmanNext]_vars

\* the number of measurements among the first i entries
RECURSIVE measured(_, _)
measured(measurements, i) ==
    IF i = 0 THEN 0
    ELSE measured(measurements, i - 1) + (IF measurements[i] # NULL THEN 1 ELSE 0)

\* C25: while and after applyGPSOnlyKalman fills the measurement arrays of a
\* lap with non-decreasing timestamps whose fixes are a subsequence of the
\* samples, the k-th measurement in the arrays is the k-th fix (so every fix
\* is used at most once, in sequence order), it sits at a sample with
\* exactly that fix's timestamp, and in the forward pass every sample without
\* a measurement keeps its prediction as its filtered state.
C25_MeasurementsAreFixes ==
    (kpc \in {"measure", "done"} /\ Len(gpsData) > 0) =>
        /\ Len(lonMeasurements) = Len(latMeasurements)
        /\ measured(latMeasurements, Len(latMeasurements)) = gpsIdx
        /\ \A i \in 1..Len(latMeasurements) :
              LET k == measured(latMeasurements, i)
              IN  IF latMeasurements[i] # NULL
                  THEN /\ latMeasurements[i] = Some(gpsData[k].lat)
                       /\ lonMeasurements[i] = Some(gpsData[k].lon)
                       /\ gpsData[k].timestamp = dataSlice[i].timestamp
                  ELSE lonMeasurements[i] = NULL
        /\ kpc = "done" =>
              LET timestamps == [i \in 1..Len(dataSlice) |-> dataSlice[i].timestamp]
                  f == rtsForward(inKalmanUnits(latMeasurements), timestamps, kalmanR, kalmanQ,
                                  gpsData[1].lat * KalmanUnit, Len(timestamps))
              IN  \A i \in 1..Len(f) :
                     latMeasurements[i] = NULL => /\ f[i].x_fwd = f[i].x_pred
                                                  /\ f[i].P_fwd = f[i].P_pred

\* a finished run that used two fixes, with a sample without a measurement
\* between them and a sample that shares its timestamp with its predecessor
C25_Witness ==
    /\ kpc = "done"
    /\ gpsIdx >= 2
    /\ \E i \in 2..Len(latMeasurements) :
          /\ latMeasurements[i] = NULL
          /\ measured(latMeasurements, i) = 1
    /\ \E i \in 2..Len(dataSlice) : dataSlice[i].timestamp = dataSlice[i - 1].timestamp
    /\ \E i \in 2..Len(filtered) : filtered[i].lat # filtered[1].lat

-----------------------------------------------------------------------------
(* Speed-extrema detector (analysis/speed-extrema.js)                       *)
(*                                                                          *)
(* Speeds are whole m/s. A smoothed speed is a mean over at most            *)
(* 2 * windowSize points; it is kept exactly, in units of 1 / SmoothUnit    *)
(* m/s, where every window length divides SmoothUnit.                       *)

\* the smoothing window of the model (the default of the code is 25)
windowSize == 1
\* the longest lap of the detector
MaxSpeedSamples == 7

minSpeedThreshold == 5
minDeltaKmh == 20

RECURSIVE Factorial(_)
Factorial(n) == IF n = 0 THEN 1 ELSE n * Factorial(n - 1)

SmoothUnit == Factorial(2 * windowSize)

\* smoothed[i], i 0-based: the mean of data.slice(i - windowSize, i + windowSize)
smoothedAt(data, i) ==
    LET start == Max2(0, i - windowSize)
        end == Min2(Len(data), i + windowSize)
    IN  SeqSum(SubSeq(data, start + 1, end)) * (SmoothUnit \div (end - start))

Extremum(type, i, speed) == [type |-> type, index |-> i, speed |-> speed]

\* step 1 over the indices windowSize .. i (0-based): a point can be pushed as
\* a minimum or as a maximum
RECURSIVE localExtrema(_, _)
localExtrema(data, i) ==
    IF i < windowSize THEN << >>
    ELSE LET before == localExtrema(data, i - 1)
             prev == smoothedAt(data, i - 1)
             curr == smoothedAt(data, i)
             next == smoothedAt(data, i + 1)
             withMin == IF prev > curr /\ curr < next /\ curr > minSpeedThreshold * SmoothUnit
                        THEN Append(before, Extremum("min", i, curr))
                        ELSE before
         IN  IF prev < curr /\ curr > next /\ curr > minSpeedThreshold * SmoothUnit
             THEN Append(withMin, Extremum("max", i, curr))
             ELSE withMin

\* variant of the test below that keeps the weaker of two candidates
isBetterWeaker(ext, last) ==
    \/ ext.type = "min" /\ ext.speed > last.speed
    \/ ext.type = "max" /\ ext.speed < last.speed

\* the test 'keep the better one': ext beats last, both of one type
isBetter(ext, last) ==
    \/ ext.type = "min" /\ ext.speed < last.speed
    \/ ext.type = "max" /\ ext.speed > last.speed

\* step 2 over the first k candidates
RECURSIVE mergeSameType(_, _)
mergeSameType(all, k) ==
    IF k = 0 THEN << >>
    ELSE LET m == mergeSameType(all, k - 1)
             ext == all[k]
         IN  IF Len(m) = 0 THEN << ext >>
             ELSE IF ext.type = m[Len(m)].type
                  THEN IF isBetter(ext, m[Len(m)])
                       THEN [m EXCEPT ![Len(m)] = ext]
                       ELSE m
                  ELSE Append(m, ext)

\* variant of splice that removes nothing
spliceNothing(list, i, count) == list

\* list.splice(i, count), i 0-based
splice(list, i, count) == SubSeq(list, 1, i) \o SubSeq(list, i + count + 1, Len(list))

\* variant of the test below with the comparison turned around
smallDeltaReversed(curr, next) ==
    curr.type # next.type /\ Abs(next.speed - curr.speed) * 36 > minDeltaKmh * 10 * SmoothUnit

\* adjacent opposite types with |delta| < minDeltaKmh / 3.6
smallDelta(curr, next) ==
    curr.type # next.type /\ Abs(next.speed - curr.speed) * 36 < minDeltaKmh * 10 * SmoothUnit

hasSmallPair(list) == \E i \in 1..(Len(list) - 1) : smallDelta(list[i], list[i + 1])

hasSameTypePair(list) == \E i \in 1..(Len(list) - 1) : list[i].type = list[i + 1].type

\* the first for-loop of a pass: remove the first pair with a small delta
dropSmallPair(list) ==
    LET found == { i \in 1..(Len(list) - 1) : smallDelta(list[i], list[i + 1]) }
    IN  IF found = {} THEN list
        ELSE LET i == CHOOSE j \in found : \A h \in found : j <= h
             IN  splice(list, i - 1, 2)

\* the second for-loop of a pass: merge the first pair of one type
mergeFirstPair(list) ==
    LET found == { i \in 1..(Len(list) - 1) : list[i].type = list[i + 1].type }
    IN  IF found = {} THEN list
        ELSE LET i == CHOOSE j \in found : \A h \in found : j <= h
             IN  IF isBetter(list[i + 1], list[i]) THEN splice(list, i - 1, 1)
                 ELSE splice(list, i, 1)

\* step 4: the point of a candidate; speedKmh in tenths of km/h
SpeedPoint(data, ext) ==
    [index |-> ext.index, speed |-> data[ext.index + 1], speedKmh |-> data[ext.index + 1] * 36]

RECURSIVE pointsOfType(_, _, _)
pointsOfType(data, list, type) ==
    IF list = << >> THEN << >>
    ELSE IF Head(list).type = type
         THEN << SpeedPoint(data, Head(list)) >> \o pointsOfType(data, Tail(list), type)
         ELSE pointsOfType(data, Tail(list), type)

SpeedValues == { 0, 10, 14 }
\* three laps with a faster stretch: one with a plateau between two equal
\* minima and a pair to drop, one with two maxima of different height and no
\* minimum between them, one with two pairs to drop
WindingLaps == { <<10, 14, 0, 30, 0, 14, 14, 0, 30>>, <<0, 0, 0, 10, 10, 0, 10, 14, 0>>,
                 <<0, 14, 10, 10, 14, 0, 30>> }

SpeedLaps == UNION { [1..n -> SpeedValues] : n \in 1..MaxSpeedSamples } \cup WindingLaps

ExtremaInit ==
    /\ speedData \in SpeedLaps
    /\ allExtrema = << >>
    /\ merged = << >>
    /\ changed = FALSE
    /\ extrema = NoExtrema
    /\ xpc = "start"
    /\ fullData = << >>
    /\ gpsData = << >>
    /\ linear = << >>
    /\ spline = << >>
    /\ rpc = "idle"
    /\ OutlierIdle
    /\ EkfIdle
    /\ ConfigIdle
    /\ ApiIdle
    /\ RunnerIdle
    /\ CsvIdle
    /\ HeapIdle
    /\ KalmanIdle
    /\ PlayIdle
    /\ EnrichIdle
    /\ MetricsIdle

ExtremaFrame ==
    UNCHANGED <<fullData, gpsData, linear, spline, rpc, ekfVars, outlierVars, enrichVars,
                metricsVars, configVars, apiVars, runnerVars, csvVars, heapVars, kalmanVars,
                playVars>>

\* if (data.length < windowSize * 2) return extrema
ExtremaShort ==
    /\ xpc = "start"
    /\ Len(speedData) < windowSize * 2
    /\ xpc' = "done"
    /\ UNCHANGED <<speedData, allExtrema, merged, changed, extrema>>
    /\ ExtremaFrame

\* smoothing and step 1
ExtremaFind ==
    /\ xpc = "start"
    /\ Len(speedData) >= windowSize * 2
    /\ allExtrema' = localExtrema(speedData, Len(speedData) - windowSize - 1)
    /\ xpc' = "merge"
    /\ UNCHANGED <<speedData, merged, changed, extrema>>
    /\ ExtremaFrame

\* step 2, and the initialisation of step 3
ExtremaMerge ==
    /\ xpc = "merge"
    /\ merged' = mergeSameType(allExtrema, Len(allExtrema))
    /\ changed' = TRUE
    /\ xpc' = "filter"
    /\ UNCHANGED <<speedData, allExtrema, extrema>>
    /\ ExtremaFrame

\* one pass of the while loop of step 3
ExtremaPass ==
    /\ xpc = "filter"
    /\ changed
    /\ LET dropped == dropSmallPair(merged)
           after == mergeFirstPair(dropped)
       IN  /\ merged' = after
           /\ changed' = (hasSmallPair(merged) \/ hasSameTypePair(dropped))
    /\ UNCHANGED <<speedData, allExtrema, extrema, xpc>>
    /\ ExtremaFrame

\* the loop is left; step 4
ExtremaFormat ==
    /\ xpc = "filter"
    /\ ~changed
    /\ extrema' = [minPoints |-> pointsOfType(speedData, merged, "min"),
                   maxPoints |-> pointsOfType(speedData, merged, "max")]
    /\ xpc' = "done"
    /\ UNCHANGED <<speedData, allExtrema, merged, changed>>
    /\ ExtremaFrame

ExtremaNext ==
    \/ ExtremaShort
    \/ ExtremaFind
    \/ ExtremaMerge
    \/ ExtremaPass
    \/ ExtremaFormat

ExtremaSpec == ExtremaInit /\ [][ExtremaNext]_vars

\* the function runs to its end once called
ExtremaFairSpec == ExtremaSpec /\ WF_vars(ExtremaNext)

\* C26: the loop of step 3 of findSpeedExtrema terminates: a pass that makes
\* a change leaves strictly fewer candidates, a pass that makes none leaves
\* the candidates as they are and is the last one, and the function returns.
C26_FilterTerminates ==
    /\ [][(xpc = "filter" /\ changed) =>
             /\ changed' => Len(merged') < Len(merged)
             /\ ~changed' => merged' = merged
             /\ xpc' = "filter"]_vars
    /\ [][(xpc = "filter" /\ ~changed) => xpc' = "done"]_vars
    /\ <>(xpc = "done")

\* the loop has made three passes at least: two with a change, then the last
C26_Witness ==
    /\ xpc = "done"
    /\ Len(mergeSameType(allExtrema, Len(allExtrema))) >= Len(merged) + 4

Alternates(list) == \A i \in 1..(Len(list) - 1) : list[i].type # list[i + 1].type

\* candidates a and b of step 1 lie in one run of candidates of one type
sameRun(all, a, b) == \A h \in Min2(a, b)..Max2(a, b) : all[h].type = all[a].type

\* every run of same-type candidates of step 1 is represented in m by a
\* candidate of the run that no candidate of the run beats
StrongestOfRuns(all, m) ==
    /\ Range(m) \subseteq Range(all)
    /\ \A k \in 1..Len(all) :
          \E j \in 1..Len(m), p \in 1..Len(all) :
             /\ all[p] = m[j]
             /\ sameRun(all, k, p)
             /\ all[k].type = "min" => m[j].speed <= all[k].speed
             /\ all[k].type = "max" => m[j].speed >= all[k].speed

\* C27: from step 2 on the candidates alternate between minimum and maximum
\* in track order (so step 3 never merges); when findSpeedExtrema finishes,
\* every two adjacent survivors differ in smoothed speed by minDeltaKmh / 3.6
\* at least; and the merge of step 2 leaves of every run of same-type
\* candidates the strongest one.
C27_AlternateAndApart ==
    /\ [](xpc \in {"filter", "done"} =>
             /\ Alternates(merged)
             /\ \A i \in 1..(Len(merged) - 1) : merged[i].index < merged[i + 1].index)
    /\ [](xpc = "done" =>
             \A i \in 1..(Len(merged) - 1) :
                Abs(merged[i + 1].speed - merged[i].speed) * 36 >= minDeltaKmh * 10 * SmoothUnit)
    /\ [][xpc = "merge" => StrongestOfRuns(allExtrema, merged')]_vars

\* a finished run in which step 2 merged, step 3 dropped a pair, and two
\* candidates survive
C27_Witness ==
    /\ xpc = "done"
    /\ Len(merged) >= 2
    /\ Len(mergeSameType(allExtrema, Len(allExtrema))) < Len(allExtrema)
    /\ Len(merged) < Len(mergeSameType(allExtrema, Len(allExtrema)))

-----------------------------------------------------------------------------
(* Playback of TelemetryVisualization (browser/components/event-bus.js)     *)
(*                                                                          *)
(* The page runs one handler at a time: a click on play, a click on a speed *)
(* button, or the callbacks of an animation frame. A frame runs the         *)
(* callbacks requested before it began; a callback requested while it runs  *)
(* waits for the next frame. Time is counted in ticks of the clock, and     *)
(* currentTime and the lap's duration in the same ticks.                    *)

\* the last reading of the clock
MaxClock == 4
\* no more requests than this are let into the frame queue
MaxCallbacks == 3
\* ld.duration of the lap on show
LapDuration == 3

\* two of the four speed buttons (1x, 2x, 4x, 8x)
PlaybackSpeeds == { 1, 2 }

\* animate(): the state after the call, and whether it asked for a frame
animate(playing, last, time, speed, lap, now) ==
    IF ~playing THEN [lastFrameTime |-> last, currentTime |-> time, requested |-> FALSE]
    ELSE IF ~lap THEN [lastFrameTime |-> Some(now), currentTime |-> time, requested |-> FALSE]
    ELSE LET dt == now - last[1]
             advanced == time + dt * speed
         IN  [lastFrameTime |-> Some(now),
              currentTime |-> IF advanced >= LapDuration THEN 0 ELSE advanced,
              requested |-> TRUE]

PlayInit ==
    /\ isPlaying = FALSE
    /\ lastFrameTime = NULL
    /\ currentTime = 0
    /\ playbackSpeed = 1
    /\ hasLapData \in BOOLEAN
    /\ clock = 0
    /\ pendingFrames = 0
    /\ runningFrames = 0
    /\ fullData = << >>
    /\ gpsData = << >>
    /\ linear = << >>
    /\ spline = << >>
    /\ rpc = "idle"
    /\ OutlierIdle
    /\ EkfIdle
    /\ ConfigIdle
    /\ ApiIdle
    /\ RunnerIdle
    /\ CsvIdle
    /\ HeapIdle
    /\ KalmanIdle
    /\ ExtremaIdle
    /\ EnrichIdle
    /\ MetricsIdle

PlayFrame ==
    UNCHANGED <<fullData, gpsData, linear, spline, rpc, ekfVars, outlierVars, enrichVars,
                metricsVars, configVars, apiVars, runnerVars, csvVars, heapVars, kalmanVars,
                extremaVars>>

\* togglePlay() to play: the flag, the clock reading, and animate() at once
TogglePlayOn ==
    /\ runningFrames = 0
    /\ ~isPlaying
    /\ pendingFrames < MaxCallbacks
    /\ LET a == animate(TRUE, Some(clock), currentTime, playbackSpeed, hasLapData, clock)
       IN  /\ isPlaying' = TRUE
           /\ lastFrameTime' = a.lastFrameTime
           /\ currentTime' = a.currentTime
           /\ pendingFrames' = pendingFrames + (IF a.requested THEN 1 ELSE 0)
    /\ UNCHANGED <<playbackSpeed, hasLapData, clock, runningFrames>>
    /\ PlayFrame

\* togglePlay() to pause: the flag only; no request is taken back
TogglePlayOff ==
    /\ runningFrames = 0
    /\ isPlaying
    /\ isPlaying' = FALSE
    /\ UNCHANGED <<lastFrameTime, currentTime, playbackSpeed, hasLapData, clock, pendingFrames,
                   runningFrames>>
    /\ PlayFrame

\* setSpeed(speed), with a speed other than the one in use
SetSpeed ==
    /\ runningFrames = 0
    /\ \E speed \in PlaybackSpeeds :
          /\ speed # playbackSpeed
          /\ playbackSpeed' = speed
    /\ UNCHANGED <<isPlaying, lastFrameTime, currentTime, hasLapData, clock, pendingFrames,
                   runningFrames>>
    /\ PlayFrame

\* time passes with no handler running
Tick ==
    /\ runningFrames = 0
    /\ clock < MaxClock
    /\ clock' = clock + 1
    /\ UNCHANGED <<isPlaying, lastFrameTime, currentTime, playbackSpeed, hasLapData,
                   pendingFrames, runningFrames>>
    /\ PlayFrame

\* the browser begins a frame: the callbacks requested so far are to run
FrameBegin ==
    /\ runningFrames = 0
    /\ pendingFrames > 0
    /\ clock < MaxClock
    /\ clock' = clock + 1
    /\ runningFrames' = pendingFrames
    /\ pendingFrames' = 0
    /\ UNCHANGED <<isPlaying, lastFrameTime, currentTime, playbackSpeed, hasLapData>>
    /\ PlayFrame

\* one callback of the frame: () => this.animate()
FrameCallback ==
    /\ runningFrames > 0
    /\ LET a == animate(isPlaying, lastFrameTime, currentTime, playbackSpeed, hasLapData, clock)
       IN  /\ lastFrameTime' = a.lastFrameTime
           /\ currentTime' = a.currentTime
           /\ pendingFrames' = pendingFrames + (IF a.requested THEN 1 ELSE 0)
    /\ runningFrames' = runningFrames - 1
    /\ UNCHANGED <<isPlaying, playbackSpeed, hasLapData, clock>>
    /\ PlayFrame

PlayNext ==
    \/ TogglePlayOn
    \/ TogglePlayOff
    \/ SetSpeed
    \/ Tick
    \/ FrameBegin
    \/ FrameCallback

PlaySpec == PlayInit /\ [][PlayNext]_vars

\* C30: after any interleaving of play/pause toggles and animation-frame
\* callbacks, play, pause, play within one frame included, at most one
\* animation-frame callback is pending, and a callback that runs while
\* playback is paused does not change currentTime.
C30_OneCallbackPending ==
    /\ [](pendingFrames + runningFrames <= 1)
    /\ [][(runningFrames > 0 /\ ~isPlaying) => currentTime' = currentTime]_vars

\* the half of C30 about the paused state, on its own
C30_PausedHolds ==
    [][(runningFrames > 0 /\ ~isPlaying) =>
          /\ currentTime' = currentTime
          /\ pendingFrames' = pendingFrames]_vars

====
